---- MODULE Spec2Model ----
(***************************************************************************)
(* Verification model of the mirror synchronisation monitor.               *)
(*                                                                         *)
(*   src/src/monitor.py   StrmChangeHandler, run_mapping_loop, main        *)
(*   src/src/mapping.py   map_strm_path, update, delete, delete_empty_dirs *)
(*                                                                         *)
(* Threads of the monitor: the watchdog dispatcher thread (one callback at *)
(* a time), the mapping thread (run_mapping_loop) and the signal handler.  *)
(* Every action below is one atomic step of one thread: a lock section, an *)
(* Event operation, or a call that touches no shared state.                *)
(*                                                                         *)
(* Time.  time.monotonic() is read as `now`.  The clock reading is kept at *)
(* the fixed value Horizon and the passage of one time unit (Tick) moves   *)
(* every stored timestamp one unit into the past instead; a timestamp      *)
(* older than Horizon stays at 0.  Only differences between a timestamp    *)
(* and the clock, and the order of two timestamps, are ever used by the    *)
(* code, and Tick preserves both, so behaviours of any duration are        *)
(* represented with finitely many states.                                  *)
(***************************************************************************)
EXTENDS Integers, Sequences, FiniteSets, TLC

\* ---------------------------------------------------------------- bounds
\* The clock reading; stored timestamps range over 0..Horizon (+ interval).
Horizon == 2
\* Watch callbacks accepted in one behaviour (event_counter is unbounded in
\* the code).
MaxEvents == 3

\* ------------------------------------------------------ program constants
\* monitor.py:24.
DEBOUNCE_SECONDS == 2
\* monitor.py:26 and :25 are 5*60 and 24*60*60 seconds; the model keeps
\* their order (debounce < retry < normal interval) in a coarser unit.
FULL_SYNC_RETRY_SECONDS == 3
FULL_SYNC_INTERVAL_SECONDS == 4
\* monitor.py:27.
SHUTDOWN_TIMEOUT_SECONDS == 10
\* monitor.py:23 is 30*60 seconds; the model keeps it longer than the
\* shutdown timeout.
RUN_INTERVAL_SECONDS == 12

\* Source paths the watch reports.  StrmPaths carry the suffix ".strm" and
\* are ordered as sorted() orders them; OtherPath carries another suffix;
\* NoPath is the missing path (None or the empty string).
StrmPaths == {1, 2}
OtherPath == 3
NoPath == 0
EventPaths == StrmPaths \cup {OtherPath, NoPath}

Suffix(path) == IF path \in StrmPaths THEN ".strm" ELSE ".txt"

VARIABLES
  \* ---- mapping thread (run_mapping_loop) and the state it shares
  pc,                \* position of run_mapping_loop
  stop_event,        \* threading.Event: the cancellation flag
  trigger_event,     \* threading.Event: the trigger
  last_event_time,   \* last_event_time['value']
  event_counter,     \* event_counter['value']
  changed_paths,     \* live pending set
  deleted_paths,     \* live pending set
  observer,          \* "running", "stopped" (stop() called), "joined"
  handler_pc,        \* watchdog dispatcher thread: "idle" or "set_trigger"
  next_full_sync,    \* locals of run_mapping_loop ...
  counter_before,
  success,
  wake,              \* end of the timeout of the stop_event.wait in progress
  run_started,
  changed_snapshot,
  deleted_snapshot,
  counter_snapshot,
  failed_changed,
  failed_deleted,
  counter_after,
  calls,             \* the calls run_mapping_incremental made, in order
  raised_calls,      \* history: those of them that raised
  \* ---- history variables (not in the code)
  baseline,          \* the initial full sync has returned True
  accepted_in_sync,  \* a callback was accepted since counter_before was read
  requeued,          \* paths put back by the last requeue, not yet taken again
  requeue_time,      \* when that requeue happened
  burst,             \* the burst of accepted events being followed, see Burst
  move_dest,         \* on_moved: the dest_path still to be recorded
  filtered,          \* history: the last callback returned before the lock
  last_kind,         \* history: per path, its last accepted event since
                     \*   the last snapshot ("none" without one)
  touched,           \* history: paths the loop requeued or cleared since
                     \*   that event
  \* ---- coordinator (main) and update loop (run_update_loop)
  main_pc,           \* position of main()
  update_pc,         \* position of run_update_loop
  main_wake,         \* end of the timeout main() is waiting with
  update_wake,       \* end of the timeout of wait_for_stop
  update_elapsed,    \* time spent in the run_update_once() in progress
  signal_age,        \* history: time since the first signal, -1 before it
  update_failed,     \* history: the last run_update_once() raised
  \* ---- the two directory trees and the sync executor (mapping.py)
  fs,                \* the filesystem: directories and files
  counter,           \* mapping.counter
  links,             \* the symbolic links of the filesystem: path -> target
  last_op,           \* history: the operation that ran last
  sync_raised,       \* history: that operation raised
  prev_counter,      \* history: mapping.counter before that full sync
  last_path,         \* history: the path argument of that operation
  mapped,            \* history: the destination map_strm_path gave for it
  recovered,         \* the source path delete() computed last (MapSpec)
  exec_pc,           \* position of the executor call in progress (RaceSpec)
  exec_todo,         \* sources update() has enumerated and not yet visited
  vanished,          \* history: the source was removed during that call
  \* ---- the lock of run_mapping_loop, followed section by section
  lock,              \* threading.Lock: "free" or the thread holding it
  lock_pc,           \* position of run_mapping_loop between lock sections
  cb_pc              \* a callback: "idle", "waiting" for the lock, "holding"

loop_vars == <<pc, stop_event, trigger_event, last_event_time, event_counter,
          changed_paths, deleted_paths, observer, handler_pc, next_full_sync,
          counter_before, success, wake, run_started, changed_snapshot,
          deleted_snapshot, counter_snapshot, failed_changed, failed_deleted,
          counter_after, calls, raised_calls, baseline, accepted_in_sync,
          requeued, requeue_time, burst, move_dest, filtered, last_kind,
          touched>>

main_vars == <<main_pc, update_pc, main_wake, update_wake, update_elapsed,
               signal_age, update_failed>>

map_vars == <<links, recovered>>
exec_vars == <<exec_pc, exec_todo, vanished>>
fs_vars == <<fs, counter, last_op, sync_raised, prev_counter, last_path,
             mapped, map_vars, exec_vars>>

lock_vars == <<lock, lock_pc, cb_pc>>

vars == <<loop_vars, main_vars, fs_vars, lock_vars>>

shared_vars == <<stop_event, trigger_event, last_event_time, event_counter,
                 changed_paths, deleted_paths>>
handler_vars == <<observer, handler_pc>>
sched_vars == <<next_full_sync, counter_before, success>>
pass_vars == <<run_started, changed_snapshot, deleted_snapshot,
               counter_snapshot, failed_changed, failed_deleted,
               counter_after, calls, raised_calls>>
retry_vars == <<requeued, requeue_time>>
history_vars == <<baseline, accepted_in_sync, retry_vars, burst>>
event_vars == <<move_dest, filtered, last_kind, touched>>

\* time.monotonic()
now == Horizon

Max(a, b) == IF a >= b THEN a ELSE b

\* A timestamp one time unit later.
Past(t) == IF t > 0 THEN t - 1 ELSE 0

\* Positions at which run_started is live (assigned and still to be read).
PassStates == {"snapshot", "incremental", "post_batch", "recheck"}
\* Positions between the two reads of event_counter around a scheduled sync.
SchedStates == {"scheduled_full", "scheduled_post"}

\* ---- history of the burst of accepted events being followed.
\* A burst opens with a callback accepted while the trigger is clear, the
\* pending sets are empty and shutdown has not been requested, and takes in
\* every callback accepted less than DEBOUNCE_SECONDS after the first one.
\* It is followed until shutdown is requested or a call of
\* run_mapping_incremental raises.
\*   first    when its first callback was accepted
\*   batches  executions of run_mapping_incremental since it opened
\*   sched    a scheduled full sync has been in progress since it opened
\*   class    the most recent classification of each path in the burst
Unclassified == [p \in StrmPaths |-> "none"]
NoBurst == [open |-> FALSE, first |-> 0, batches |-> 0, sched |-> FALSE,
            class |-> Unclassified]

BurstAfterEvent(path, deleted) ==
  LET kind == IF deleted THEN "deleted" ELSE "changed"
  IN IF burst.open /\ now - burst.first < DEBOUNCE_SECONDS
     THEN [burst EXCEPT !.class[path] = kind]
     ELSE IF ~trigger_event /\ changed_paths = {} /\ deleted_paths = {}
             /\ ~stop_event
          THEN [open |-> TRUE, first |-> now, batches |-> 0,
                sched |-> pc \in SchedStates,
                class |-> [Unclassified EXCEPT ![path] = kind]]
          ELSE NoBurst

\* ------------------------------------------------------------------ Init
LoopInit ==
  /\ pc = "start"
  /\ stop_event = FALSE
  /\ trigger_event = FALSE
  /\ last_event_time = 0
  /\ event_counter = 0
  /\ changed_paths = {}
  /\ deleted_paths = {}
  /\ observer = "running"
  /\ handler_pc = "idle"
  /\ next_full_sync = 0
  /\ counter_before = 0
  /\ success = FALSE
  /\ wake = 0
  /\ run_started = 0
  /\ changed_snapshot = {}
  /\ deleted_snapshot = {}
  /\ counter_snapshot = 0
  /\ failed_changed = {}
  /\ failed_deleted = {}
  /\ counter_after = 0
  /\ calls = <<>>
  /\ raised_calls = {}
  /\ baseline = FALSE
  /\ accepted_in_sync = FALSE
  /\ requeued = {}
  /\ requeue_time = 0
  /\ burst = NoBurst
  /\ move_dest = NoPath
  /\ filtered = FALSE
  /\ last_kind = Unclassified
  /\ touched = {}
  /\ lock = "free"
  /\ lock_pc = "initial_full"
  /\ cb_pc = "idle"


\* ------------------------------------------------- StrmChangeHandler
\* _record_event returns before the lock (monitor.py:48-51).
Filtered(path, is_directory) ==
  is_directory \/ path = NoPath \/ Suffix(path) # ".strm"

\* Variant: a delete leaves the path in the changed set, a create or modify
\* leaves it in the deleted set.
Accept_NoDiscard(path, deleted) ==
  /\ last_event_time' = now
  /\ event_counter' = event_counter + 1
  /\ IF deleted
     THEN /\ deleted_paths' = deleted_paths \cup {path}
          /\ UNCHANGED changed_paths
     ELSE /\ changed_paths' = changed_paths \cup {path}
          /\ UNCHANGED deleted_paths
  /\ handler_pc' = "set_trigger"
  /\ accepted_in_sync' = (pc \in SchedStates)
  /\ burst' = BurstAfterEvent(path, deleted)
  /\ filtered' = FALSE
  /\ last_kind' = [last_kind EXCEPT
                     ![path] = IF deleted THEN "deleted" ELSE "changed"]
  /\ touched' = touched \ {path}
  /\ UNCHANGED <<pc, stop_event, trigger_event, observer, sched_vars, wake,
                 pass_vars, baseline, retry_vars>>
  /\ UNCHANGED <<main_vars, fs_vars, lock_vars>>

\* The lock section of _record_event (monitor.py:52-61).
Accept(path, deleted) ==
  /\ last_event_time' = now
  /\ event_counter' = event_counter + 1
  /\ IF deleted
     THEN /\ changed_paths' = changed_paths \ {path}
          /\ deleted_paths' = deleted_paths \cup {path}
     ELSE /\ deleted_paths' = deleted_paths \ {path}
          /\ changed_paths' = changed_paths \cup {path}
  /\ handler_pc' = "set_trigger"
  /\ accepted_in_sync' = (pc \in SchedStates)
  /\ burst' = BurstAfterEvent(path, deleted)
  /\ filtered' = FALSE
  /\ last_kind' = [last_kind EXCEPT
                     ![path] = IF deleted THEN "deleted" ELSE "changed"]
  /\ touched' = touched \ {path}
  /\ UNCHANGED <<pc, stop_event, trigger_event, observer, sched_vars, wake,
                 pass_vars, baseline, retry_vars>>
  /\ UNCHANGED <<main_vars, fs_vars, lock_vars>>

\* Variant: the suffix is tested after the lock section, so an event on a
\* file of another kind refreshes last_event_time and sets the trigger.
record_event_late_filter(path, is_directory, deleted) ==
  /\ observer = "running"
  /\ handler_pc = "idle"
  /\ IF is_directory \/ path = NoPath
     THEN /\ filtered' = TRUE
          /\ UNCHANGED <<pc, shared_vars, handler_vars, sched_vars, wake,
                         pass_vars, history_vars, move_dest, last_kind,
                         touched>>
          /\ UNCHANGED <<main_vars, fs_vars, lock_vars>>
     ELSE IF Suffix(path) # ".strm"
     THEN /\ filtered' = TRUE
          /\ last_event_time' = now
          /\ handler_pc' = "set_trigger"
          /\ UNCHANGED <<pc, stop_event, trigger_event, event_counter,
                         changed_paths, deleted_paths, observer, sched_vars,
                         wake, pass_vars, history_vars, move_dest, last_kind,
                         touched>>
          /\ UNCHANGED <<main_vars, fs_vars, lock_vars>>
     ELSE /\ event_counter < MaxEvents
          /\ Accept(path, deleted)
          /\ move_dest' = NoPath

\* _record_event up to the end of its lock section (monitor.py:47-61).
record_event(path, is_directory, deleted) ==
  /\ observer = "running"
  /\ handler_pc = "idle"
  /\ IF Filtered(path, is_directory)
     THEN /\ filtered' = TRUE
          /\ UNCHANGED <<pc, shared_vars, handler_vars, sched_vars, wake,
                         pass_vars, history_vars, move_dest, last_kind,
                         touched>>
          /\ UNCHANGED <<main_vars, fs_vars, lock_vars>>
     ELSE /\ event_counter < MaxEvents
          /\ Accept(path, deleted)
          /\ move_dest' = NoPath

\* self._trigger_event.set() after the lock is released (monitor.py:62);
\* on_moved goes on with its second _record_event.
set_trigger ==
  /\ handler_pc = "set_trigger"
  /\ trigger_event' = TRUE
  /\ handler_pc' = IF move_dest # NoPath THEN "moved_dest" ELSE "idle"
  /\ UNCHANGED <<pc, stop_event, last_event_time, event_counter,
                 changed_paths, deleted_paths, observer, sched_vars, wake,
                 pass_vars, history_vars>>
  /\ UNCHANGED <<main_vars, fs_vars, lock_vars, event_vars>>

on_created(path, is_directory) == record_event(path, is_directory, FALSE)
on_modified(path, is_directory) == record_event(path, is_directory, FALSE)
on_deleted(path, is_directory) == record_event(path, is_directory, TRUE)

\* Variant: the old path of a move is recorded like a modification.
on_moved_as_modify(src_path, dest_path, is_directory) ==
  IF Filtered(src_path, is_directory)
  THEN record_event(dest_path, is_directory, FALSE)
  ELSE /\ observer = "running"
       /\ handler_pc = "idle"
       /\ event_counter + (IF Filtered(dest_path, is_directory) THEN 1 ELSE 2)
            <= MaxEvents
       /\ Accept(src_path, FALSE)
       /\ move_dest' = IF Filtered(dest_path, is_directory) THEN NoPath
                                                            ELSE dest_path

\* on_moved (monitor.py:73-76): _record_event for src_path as a delete,
\* then for dest_path as a create.  A first call that returns before the
\* lock changes nothing, so the second follows in the same step; after a
\* first call that is accepted the second one is MovedDest.  The guard on
\* event_counter leaves room for both within MaxEvents.
on_moved(src_path, dest_path, is_directory) ==
  IF Filtered(src_path, is_directory)
  THEN record_event(dest_path, is_directory, FALSE)
  ELSE /\ observer = "running"
       /\ handler_pc = "idle"
       /\ event_counter + (IF Filtered(dest_path, is_directory) THEN 1 ELSE 2)
            <= MaxEvents
       /\ Accept(src_path, TRUE)
       /\ move_dest' = IF Filtered(dest_path, is_directory) THEN NoPath
                                                            ELSE dest_path

\* The second _record_event of on_moved, for dest_path (monitor.py:75-76).
MovedDest ==
  /\ handler_pc = "moved_dest"
  /\ Accept(move_dest, FALSE)
  /\ move_dest' = NoPath

\* -------------------------------------------------------------- helpers
\* run_mapping_full(): mapping.main() raised (False) or not (True).
run_mapping_full(raised) == ~raised

\* Variant: the two counter reads are not compared.
should_clear_ignoring_counter(ok, before, after) == ok

should_clear_full_sync(ok, before, after) == ok /\ before = after

Min(S) == CHOOSE x \in S : \A y \in S : x <= y

RECURSIVE Sorted(_)
\* sorted(S) as a sequence.
Sorted(S) == IF S = {} THEN <<>> ELSE <<Min(S)>> \o Sorted(S \ {Min(S)})

Call(op, path) == [op |-> op, path |-> path]

\* Variant: the update loop runs before the delete loop.
run_mapping_incremental_updates_first(changed, deleted, raising) ==
  IF changed = {} /\ deleted = {}
  THEN [failed_changed |-> {}, failed_deleted |-> {}, calls |-> <<>>]
  ELSE LET dels == Sorted(deleted)
           upds == Sorted(changed)
       IN [failed_changed |->
             {p \in changed : Call("update_one", p) \in raising},
           failed_deleted |->
             {p \in deleted : Call("delete_one", p) \in raising},
           calls |->
             [i \in 1..Len(upds) |-> Call("update_one", upds[i])]
             \o [i \in 1..Len(dels) |-> Call("delete_one", dels[i])]]

\* Variant: the first call that raises ends the batch, and only its path is
\* reported as failed.
run_mapping_incremental_abort_on_failure(changed, deleted, raising) ==
  LET dels == Sorted(deleted)
      upds == Sorted(changed)
      all == [i \in 1..Len(dels) |-> Call("delete_one", dels[i])]
             \o [i \in 1..Len(upds) |-> Call("update_one", upds[i])]
      bad == {i \in DOMAIN all : all[i] \in raising}
      last == IF bad = {} THEN Len(all) ELSE Min(bad)
      made == SubSeq(all, 1, last)
      failed == {made[i] : i \in DOMAIN made} \cap raising
  IN [failed_changed |-> {p \in changed : Call("update_one", p) \in failed},
      failed_deleted |-> {p \in deleted : Call("delete_one", p) \in failed},
      calls |-> made]

\* run_mapping_incremental (monitor.py:88-115); `raising` is the set of
\* calls that raise.  Returns the two failed sets and the calls in order.
run_mapping_incremental(changed, deleted, raising) ==
  IF changed = {} /\ deleted = {}
  THEN [failed_changed |-> {}, failed_deleted |-> {}, calls |-> <<>>]
  ELSE LET dels == Sorted(deleted)
           upds == Sorted(changed)
       IN [failed_changed |->
             {p \in changed : Call("update_one", p) \in raising},
           failed_deleted |->
             {p \in deleted : Call("delete_one", p) \in raising},
           calls |->
             [i \in 1..Len(dels) |-> Call("delete_one", dels[i])]
             \o [i \in 1..Len(upds) |-> Call("update_one", upds[i])]]

\* ------------------------------------------------- run_mapping_loop
\* while-condition of the startup loop, first half (monitor.py:170), and
\* monitor.py:174 when the loop is left because the flag is set.
StartupCheck ==
  /\ pc = "start"
  /\ IF stop_event
     THEN /\ next_full_sync' = now + FULL_SYNC_INTERVAL_SECONDS
          /\ pc' = "loop_head"
     ELSE /\ pc' = "initial_full"
          /\ UNCHANGED next_full_sync
  /\ UNCHANGED <<shared_vars, handler_vars, counter_before, success, wake,
                 pass_vars, history_vars>>
  /\ UNCHANGED <<main_vars, fs_vars, lock_vars, event_vars>>

\* Variant: the startup loop is left after the first attempt, whatever it
\* returned.
InitialFull_NoRetry ==
  /\ pc = "initial_full"
  /\ \E raised \in BOOLEAN : baseline' = run_mapping_full(raised)
  /\ next_full_sync' = now + FULL_SYNC_INTERVAL_SECONDS
  /\ pc' = "loop_head"
  /\ UNCHANGED <<shared_vars, handler_vars, counter_before, success, wake,
                 pass_vars, accepted_in_sync, retry_vars, burst>>
  /\ UNCHANGED <<main_vars, fs_vars, lock_vars, event_vars>>

\* The initial run_mapping_full() returns (monitor.py:170-174).
InitialFull ==
  /\ pc = "initial_full"
  /\ \E raised \in BOOLEAN :
       IF run_mapping_full(raised)
       THEN /\ baseline' = TRUE
            /\ next_full_sync' = now + FULL_SYNC_INTERVAL_SECONDS
            /\ pc' = "loop_head"
            /\ UNCHANGED wake
       ELSE /\ wake' = now + DEBOUNCE_SECONDS
            /\ pc' = "startup_wait"
            /\ UNCHANGED <<baseline, next_full_sync>>
  /\ UNCHANGED <<shared_vars, handler_vars, counter_before, success,
                 pass_vars, accepted_in_sync, retry_vars, burst>>
  /\ UNCHANGED <<main_vars, fs_vars, lock_vars, event_vars>>

\* stop_event.wait(timeout=DEBOUNCE_SECONDS) returns (monitor.py:172-173).
StartupWait ==
  /\ pc = "startup_wait"
  /\ IF stop_event
     THEN pc' = "finally"
     ELSE now >= wake /\ pc' = "start"
  /\ wake' = 0
  /\ UNCHANGED <<shared_vars, handler_vars, sched_vars, pass_vars,
                 history_vars>>
  /\ UNCHANGED <<main_vars, fs_vars, lock_vars, event_vars>>

\* Head of the main loop (monitor.py:176-179).
LoopHead ==
  /\ pc = "loop_head"
  /\ IF stop_event
     THEN /\ pc' = "finally"
          /\ UNCHANGED <<counter_before, accepted_in_sync, burst>>
     ELSE IF now >= next_full_sync
          THEN /\ counter_before' = event_counter
               /\ accepted_in_sync' = FALSE
               /\ burst' = IF burst.open THEN [burst EXCEPT !.sched = TRUE]
                                         ELSE burst
               /\ pc' = "scheduled_full"
          ELSE /\ pc' = "idle_wait"
               /\ UNCHANGED <<counter_before, accepted_in_sync, burst>>
  /\ UNCHANGED <<shared_vars, handler_vars, next_full_sync, success, wake,
                 pass_vars, baseline, retry_vars>>
  /\ UNCHANGED <<main_vars, fs_vars, lock_vars, event_vars>>

\* The scheduled run_mapping_full() returns (monitor.py:181).
ScheduledFull ==
  /\ pc = "scheduled_full"
  /\ \E raised \in BOOLEAN : success' = run_mapping_full(raised)
  /\ pc' = "scheduled_post"
  /\ UNCHANGED <<shared_vars, handler_vars, next_full_sync, counter_before,
                 wake, pass_vars, history_vars>>
  /\ UNCHANGED <<main_vars, fs_vars, lock_vars, event_vars>>

\* Variant: without a clear the trigger is left as it is and the next
\* deadline is the retry interval away, also after a sync that succeeded.
ScheduledPost_Inconclusive ==
  /\ pc = "scheduled_post"
  /\ IF should_clear_full_sync(success, counter_before, event_counter)
     THEN /\ changed_paths' = {}
          /\ deleted_paths' = {}
          /\ trigger_event' = FALSE
          /\ requeued' = {}
          /\ requeue_time' = 0
          /\ touched' = touched \cup changed_paths \cup deleted_paths
          /\ next_full_sync' = now + FULL_SYNC_INTERVAL_SECONDS
     ELSE /\ next_full_sync' = now + FULL_SYNC_RETRY_SECONDS
          /\ UNCHANGED <<changed_paths, deleted_paths, trigger_event,
                         retry_vars, touched>>
  /\ counter_before' = 0
  /\ success' = FALSE
  /\ accepted_in_sync' = FALSE
  /\ pc' = "loop_head"
  /\ UNCHANGED <<stop_event, last_event_time, event_counter, handler_vars,
                 wake, pass_vars, baseline, burst>>
  /\ UNCHANGED <<main_vars, fs_vars, lock_vars, move_dest, filtered,
                 last_kind>>

\* After the scheduled sync (monitor.py:182-198).
ScheduledPost ==
  /\ pc = "scheduled_post"
  /\ IF should_clear_full_sync(success, counter_before, event_counter)
     THEN /\ changed_paths' = {}
          /\ deleted_paths' = {}
          /\ trigger_event' = FALSE
          /\ requeued' = {}
          /\ requeue_time' = 0
          /\ touched' = touched \cup changed_paths \cup deleted_paths
     ELSE /\ trigger_event' = TRUE
          /\ UNCHANGED <<changed_paths, deleted_paths, retry_vars, touched>>
  /\ next_full_sync' = now + (IF success THEN FULL_SYNC_INTERVAL_SECONDS
                                         ELSE FULL_SYNC_RETRY_SECONDS)
  /\ counter_before' = 0
  /\ success' = FALSE
  /\ accepted_in_sync' = FALSE
  /\ pc' = "loop_head"
  /\ UNCHANGED <<stop_event, last_event_time, event_counter, handler_vars,
                 wake, pass_vars, baseline, burst>>
  /\ UNCHANGED <<main_vars, fs_vars, lock_vars, move_dest, filtered, last_kind>>

\* Variant: trigger_event.wait() without a timeout.
IdleWait_NoTimeout ==
  /\ pc = "idle_wait"
  /\ trigger_event
  /\ pc' = "debounce"
  /\ UNCHANGED <<shared_vars, handler_vars, sched_vars, wake, pass_vars,
                 history_vars>>
  /\ UNCHANGED <<main_vars, fs_vars, lock_vars, event_vars>>

\* trigger_event.wait(timeout=0.5) returns (monitor.py:199-200).
IdleWait ==
  /\ pc = "idle_wait"
  /\ pc' = IF trigger_event THEN "debounce" ELSE "loop_head"
  /\ UNCHANGED <<shared_vars, handler_vars, sched_vars, wake, pass_vars,
                 history_vars>>
  /\ UNCHANGED <<main_vars, fs_vars, lock_vars, event_vars>>

\* Variant: no debounce wait, the pass goes straight to its snapshot.
Debounce_NoWait ==
  /\ pc = "debounce"
  /\ IF stop_event
     THEN pc' = "loop_head" /\ UNCHANGED run_started
     ELSE run_started' = now /\ pc' = "snapshot"
  /\ UNCHANGED <<shared_vars, handler_vars, sched_vars, wake,
                 changed_snapshot, deleted_snapshot, counter_snapshot,
                 failed_changed, failed_deleted, counter_after, calls,
                 raised_calls,                  history_vars>>
  /\ UNCHANGED <<main_vars, fs_vars, lock_vars, event_vars>>

\* Variant: the drain loop is `while True`, without the test of the flag.
Debounce_IgnoresStop ==
  /\ pc = "debounce"
  /\ LET last_seen == last_event_time
         since == now - last_seen
     IN IF since < DEBOUNCE_SECONDS
        THEN /\ wake' = now + (DEBOUNCE_SECONDS - since)
             /\ pc' = "debounce_sleep"
             /\ UNCHANGED run_started
        ELSE /\ run_started' = now
             /\ pc' = "snapshot"
             /\ UNCHANGED wake
  /\ UNCHANGED <<shared_vars, handler_vars, sched_vars, changed_snapshot,
                 deleted_snapshot, counter_snapshot, failed_changed,
                 failed_deleted, counter_after, calls, raised_calls,
                 history_vars>>
  /\ UNCHANGED <<main_vars, fs_vars, lock_vars, event_vars>>

\* Head of the drain loop up to run_started (monitor.py:201-209).
Debounce ==
  /\ pc = "debounce"
  /\ IF stop_event
     THEN pc' = "loop_head" /\ UNCHANGED <<wake, run_started>>
     ELSE LET last_seen == last_event_time
              since == now - last_seen
          IN IF since < DEBOUNCE_SECONDS
             THEN /\ wake' = now + (DEBOUNCE_SECONDS - since)
                  /\ pc' = "debounce_sleep"
                  /\ UNCHANGED run_started
             ELSE /\ run_started' = now
                  /\ pc' = "snapshot"
                  /\ UNCHANGED wake
  /\ UNCHANGED <<shared_vars, handler_vars, sched_vars, changed_snapshot,
                 deleted_snapshot, counter_snapshot, failed_changed,
                 failed_deleted, counter_after, calls, raised_calls,
                 history_vars>>
  /\ UNCHANGED <<main_vars, fs_vars, lock_vars, event_vars>>

\* stop_event.wait(timeout=DEBOUNCE_SECONDS - since) returns
\* (monitor.py:206-208).
DebounceSleep ==
  /\ pc = "debounce_sleep"
  /\ IF stop_event
     THEN pc' = "finally"
     ELSE now >= wake /\ pc' = "debounce"
  /\ wake' = 0
  /\ UNCHANGED <<shared_vars, handler_vars, sched_vars, pass_vars,
                 history_vars>>
  /\ UNCHANGED <<main_vars, fs_vars, lock_vars, event_vars>>

\* Snapshot-and-clear under the lock (monitor.py:210-216).
Snapshot ==
  /\ pc = "snapshot"
  /\ changed_snapshot' = changed_paths
  /\ deleted_snapshot' = deleted_paths
  /\ changed_paths' = {}
  /\ deleted_paths' = {}
  /\ counter_snapshot' = event_counter
  /\ pc' = IF changed_paths # {} \/ deleted_paths # {}
           THEN "incremental" ELSE "recheck"
  /\ requeued' = {}
  /\ requeue_time' = 0
  /\ UNCHANGED <<stop_event, trigger_event, last_event_time, event_counter,
                 handler_vars, sched_vars, wake, run_started, failed_changed,
                 failed_deleted, counter_after, calls, raised_calls, baseline,
                 accepted_in_sync, burst>>
  /\ last_kind' = Unclassified
  /\ touched' = {}
  /\ UNCHANGED <<main_vars, fs_vars, lock_vars, move_dest, filtered>>

\* run_mapping_incremental returns (monitor.py:218).
RunIncremental ==
  /\ pc = "incremental"
  /\ \E raising \in SUBSET ({Call("delete_one", p) : p \in deleted_snapshot}
                            \cup {Call("update_one", p) : p \in changed_snapshot}) :
       LET r == run_mapping_incremental(changed_snapshot, deleted_snapshot,
                                        raising)
       IN /\ failed_changed' = r.failed_changed
          /\ failed_deleted' = r.failed_deleted
          /\ calls' = r.calls
          /\ raised_calls' = raising
          /\ burst' = IF burst.open /\ raising = {}
                      THEN [burst EXCEPT !.batches = @ + 1]
                      ELSE NoBurst
  /\ pc' = "post_batch"
  /\ UNCHANGED <<shared_vars, handler_vars, sched_vars, wake, run_started,
                 changed_snapshot, deleted_snapshot, counter_snapshot,
                 counter_after, baseline, accepted_in_sync, retry_vars>>
  /\ UNCHANGED <<main_vars, fs_vars, lock_vars, event_vars>>

\* Variant: the requeue leaves last_event_time as it is.
PostBatch_StaleClock ==
  /\ pc = "post_batch"
  /\ IF failed_changed # {} \/ failed_deleted # {}
     THEN /\ changed_paths' = changed_paths \cup failed_changed
          /\ deleted_paths' = deleted_paths \cup failed_deleted
          /\ trigger_event' = TRUE
          /\ run_started' = 0
          /\ counter_snapshot' = 0
          /\ requeued' = failed_changed \cup failed_deleted
          /\ requeue_time' = now
          /\ touched' = touched \cup failed_changed \cup failed_deleted
          /\ pc' = "loop_head"
     ELSE /\ pc' = "recheck"
          /\ UNCHANGED <<changed_paths, deleted_paths, trigger_event,
                         run_started, counter_snapshot, retry_vars, touched>>
  /\ changed_snapshot' = {}
  /\ deleted_snapshot' = {}
  /\ failed_changed' = {}
  /\ failed_deleted' = {}
  /\ calls' = <<>>
  /\ raised_calls' = {}
  /\ UNCHANGED <<stop_event, last_event_time, event_counter, handler_vars,
                 sched_vars, wake, counter_after, baseline, accepted_in_sync,
                 burst>>
  /\ UNCHANGED <<main_vars, fs_vars, lock_vars, move_dest, filtered, last_kind>>

\* Requeue of the failed paths, or on to the re-check (monitor.py:219-229).
PostBatch ==
  /\ pc = "post_batch"
  /\ IF failed_changed # {} \/ failed_deleted # {}
     THEN /\ changed_paths' = changed_paths \cup failed_changed
          /\ deleted_paths' = deleted_paths \cup failed_deleted
          /\ last_event_time' = now
          /\ trigger_event' = TRUE
          /\ run_started' = 0
          /\ counter_snapshot' = 0
          /\ requeued' = failed_changed \cup failed_deleted
          /\ requeue_time' = now
          /\ touched' = touched \cup failed_changed \cup failed_deleted
          /\ pc' = "loop_head"
     ELSE /\ pc' = "recheck"
          /\ UNCHANGED <<changed_paths, deleted_paths, last_event_time,
                         trigger_event, run_started, counter_snapshot,
                         retry_vars, touched>>
  /\ changed_snapshot' = {}
  /\ deleted_snapshot' = {}
  /\ failed_changed' = {}
  /\ failed_deleted' = {}
  /\ calls' = <<>>
  /\ raised_calls' = {}
  /\ UNCHANGED <<stop_event, event_counter, handler_vars, sched_vars, wake,
                 counter_after, baseline, accepted_in_sync, burst>>
  /\ UNCHANGED <<main_vars, fs_vars, lock_vars, move_dest, filtered, last_kind>>

\* Second lock section of a pass (monitor.py:230-234).
Recheck ==
  /\ pc = "recheck"
  /\ LET last_after == last_event_time
     IN IF last_after > run_started \/ event_counter > counter_snapshot
        THEN pc' = "debounce" /\ UNCHANGED counter_after
        ELSE pc' = "clear_trigger" /\ counter_after' = event_counter
  /\ run_started' = 0
  /\ counter_snapshot' = 0
  /\ UNCHANGED <<shared_vars, handler_vars, sched_vars, wake,
                 changed_snapshot, deleted_snapshot, failed_changed,
                 failed_deleted, calls, raised_calls,
                 history_vars>>
  /\ UNCHANGED <<main_vars, fs_vars, lock_vars, event_vars>>

\* trigger_event.clear() (monitor.py:235).
ClearTrigger ==
  /\ pc = "clear_trigger"
  /\ trigger_event' = FALSE
  /\ pc' = "final_check"
  /\ UNCHANGED <<stop_event, last_event_time, event_counter, changed_paths,
                 deleted_paths, handler_vars, sched_vars, wake, pass_vars,
                 history_vars>>
  /\ UNCHANGED <<main_vars, fs_vars, lock_vars, event_vars>>

\* Variant: the pass ends after trigger_event.clear() without looking at
\* the pending sets again.
FinalCheck_NoRecheck ==
  /\ pc = "final_check"
  /\ pc' = "loop_head"
  /\ counter_after' = 0
  /\ UNCHANGED <<shared_vars, handler_vars, sched_vars, wake, run_started,
                 changed_snapshot, deleted_snapshot, counter_snapshot,
                 failed_changed, failed_deleted, calls, raised_calls,
                 history_vars>>
  /\ UNCHANGED <<main_vars, fs_vars, lock_vars, event_vars>>

\* Last lock section of a pass (monitor.py:236-240).
FinalCheck ==
  /\ pc = "final_check"
  /\ IF event_counter > counter_after \/ changed_paths # {}
        \/ deleted_paths # {}
     THEN trigger_event' = TRUE /\ pc' = "debounce"
     ELSE pc' = "loop_head" /\ UNCHANGED trigger_event
  /\ counter_after' = 0
  /\ UNCHANGED <<stop_event, last_event_time, event_counter, changed_paths,
                 deleted_paths, handler_vars, sched_vars, wake, run_started,
                 changed_snapshot, deleted_snapshot, counter_snapshot,
                 failed_changed, failed_deleted, calls, raised_calls,
                 history_vars>>
  /\ UNCHANGED <<main_vars, fs_vars, lock_vars, event_vars>>

\* observer.stop() (monitor.py:242).
ObserverStop ==
  /\ pc = "finally"
  /\ observer' = "stopped"
  /\ pc' = "join"
  /\ UNCHANGED <<shared_vars, handler_pc, sched_vars, wake, pass_vars,
                 history_vars>>
  /\ UNCHANGED <<main_vars, fs_vars, lock_vars, event_vars>>

\* observer.join() returns once the dispatcher thread has ended
\* (monitor.py:243).
ObserverJoin ==
  /\ pc = "join"
  /\ handler_pc = "idle"
  /\ observer' = "joined"
  /\ pc' = "exited"
  /\ UNCHANGED <<shared_vars, handler_pc, sched_vars, wake, pass_vars,
                 history_vars>>
  /\ UNCHANGED <<main_vars, fs_vars, lock_vars, event_vars>>

\* handle_shutdown: the signal handler sets the flag (monitor.py:250-252).
handle_shutdown ==
  /\ stop_event' = TRUE
  /\ burst' = NoBurst
  /\ UNCHANGED <<pc, trigger_event, last_event_time, event_counter,
                 changed_paths, deleted_paths, handler_vars, sched_vars, wake,
                 pass_vars, baseline, accepted_in_sync, retry_vars>>
  /\ UNCHANGED <<main_vars, fs_vars, lock_vars, event_vars>>

\* One time unit passes.  last_event_time stays above run_started while
\* the code can still compare the two (monitor.py:233).
Tick ==
  /\ LET run == IF pc \in PassStates THEN Past(run_started) ELSE run_started
     IN /\ run_started' = run
        /\ last_event_time' =
             IF pc \in PassStates /\ last_event_time > run_started
             THEN Max(Past(last_event_time), run + 1)
             ELSE Past(last_event_time)
  /\ next_full_sync' = Past(next_full_sync)
  /\ wake' = Past(wake)
  /\ requeue_time' = Past(requeue_time)
  /\ burst' = [burst EXCEPT !.first = Past(@)]
  /\ UNCHANGED <<pc, stop_event, trigger_event, event_counter, changed_paths,
                 deleted_paths, handler_vars, counter_before, success,
                 changed_snapshot, deleted_snapshot, counter_snapshot,
                 failed_changed, failed_deleted, counter_after, calls,
                 raised_calls, baseline, accepted_in_sync, requeued>>
  /\ UNCHANGED <<main_vars, fs_vars, lock_vars, event_vars>>


\* ------------------------------------------- main and run_update_loop
\* Longest time after the first signal that signal_age tells apart.
MaxSignalAge == 2 * SHUTDOWN_TIMEOUT_SECONDS + 1

\* main() has started both loops and awaits the update task; the update
\* loop is about to test the flag for the first time (monitor.py:246-260).
MainInit ==
  /\ main_pc = "await_update"
  /\ update_pc = "head"
  /\ main_wake = 0
  /\ update_wake = 0
  /\ update_elapsed = 0
  /\ signal_age = -1
  /\ update_failed = FALSE

\* The coordinator and the update loop at rest, in the specifications that
\* follow the mapping thread or the executor alone.
MainIdle ==
  /\ main_pc = "await_update"
  /\ update_pc = "run_update_once"
  /\ main_wake = 0
  /\ update_wake = 0
  /\ update_elapsed = 0
  /\ signal_age = -1
  /\ update_failed = FALSE

\* `while not stop_event.is_set()` of run_update_loop (monitor.py:135-136,
\* :146).
UpdateHead ==
  /\ update_pc = "head"
  /\ update_pc' = IF stop_event THEN "done" ELSE "run_update_once"
  /\ update_elapsed' = 0
  /\ UNCHANGED <<main_pc, main_wake, update_wake, signal_age,
                 update_failed>>
  /\ UNCHANGED <<loop_vars, fs_vars, lock_vars>>

\* Variant: run_update_once() is called outside the try, so an exception
\* ends the update loop.
UpdateRunReturns_FailureEnds ==
  /\ update_pc = "run_update_once"
  /\ \E failed \in BOOLEAN :
       LET elapsed == update_elapsed
           sleep_for == Max(0, RUN_INTERVAL_SECONDS - elapsed)
       IN /\ update_wake' = IF failed THEN 0 ELSE now + sleep_for
          /\ update_pc' = IF failed THEN "done" ELSE "sleep"
          /\ update_failed' = failed
  /\ update_elapsed' = 0
  /\ UNCHANGED <<main_pc, main_wake, signal_age>>
  /\ UNCHANGED <<loop_vars, fs_vars, lock_vars>>

\* run_update_once() returns or raises; either way the loop goes on to
\* compute sleep_for (monitor.py:137-143).
UpdateRunReturns ==
  /\ update_pc = "run_update_once"
  /\ \E failed \in BOOLEAN :
       LET elapsed == update_elapsed
           sleep_for == Max(0, RUN_INTERVAL_SECONDS - elapsed)
       IN /\ update_wake' = now + sleep_for
          /\ update_failed' = failed
  /\ update_pc' = "sleep"
  /\ update_elapsed' = 0
  /\ UNCHANGED <<main_pc, main_wake, signal_age>>
  /\ UNCHANGED <<loop_vars, fs_vars, lock_vars>>

\* wait_for_stop returns (monitor.py:127-130, :144-145).
UpdateSleep ==
  /\ update_pc = "sleep"
  /\ stop_event \/ now >= update_wake
  /\ update_pc' = IF stop_event THEN "done" ELSE "head"
  /\ update_wake' = 0
  /\ UNCHANGED <<main_pc, main_wake, update_elapsed, signal_age,
                 update_failed>>
  /\ UNCHANGED <<loop_vars, fs_vars, lock_vars>>

\* `await update_task` returns when the task is done (monitor.py:260-265).
AwaitUpdate ==
  /\ main_pc = "await_update"
  /\ update_pc = "done"
  /\ main_pc' = "finally"
  /\ UNCHANGED <<update_pc, main_wake, update_wake, update_elapsed,
                 signal_age, update_failed>>
  /\ UNCHANGED <<loop_vars, fs_vars, lock_vars>>

\* Start of the finally block (monitor.py:266-270, :275).
MainFinally ==
  /\ main_pc = "finally"
  /\ stop_event' = TRUE
  /\ main_pc' = IF update_pc # "done" THEN "wait_for" ELSE "join"
  /\ main_wake' = now + SHUTDOWN_TIMEOUT_SECONDS
  /\ UNCHANGED <<update_pc, update_wake, update_elapsed, signal_age,
                 update_failed>>
  /\ UNCHANGED <<pc, trigger_event, last_event_time, event_counter,
                 changed_paths, deleted_paths, handler_vars, sched_vars, wake,
                 pass_vars, history_vars, event_vars, fs_vars,
                 lock_vars>>

\* asyncio.wait_for(update_task, timeout=...) and
\* mapping_thread.join(timeout=...) return (monitor.py:268-277).
MainDrain ==
  /\ \/ /\ main_pc = "wait_for"
        /\ update_pc = "done" \/ now >= main_wake
        /\ main_pc' = "join"
        /\ main_wake' = now + SHUTDOWN_TIMEOUT_SECONDS
     \/ /\ main_pc = "join"
        /\ pc = "exited" \/ now >= main_wake
        /\ main_pc' = "done"
        /\ main_wake' = 0
  /\ UNCHANGED <<update_pc, update_wake, update_elapsed, signal_age,
                 update_failed>>
  /\ UNCHANGED <<loop_vars, fs_vars, lock_vars>>

\* The mapping thread as main() sees it: run_mapping_loop ends some time
\* after the flag is set, or not at all (monitor.py:149-243).
run_mapping_loop_returns ==
  /\ stop_event
  /\ pc # "exited"
  /\ pc' = "exited"
  /\ observer' = "joined"
  /\ UNCHANGED <<shared_vars, handler_pc, sched_vars, wake, pass_vars,
                 history_vars>>
  /\ UNCHANGED <<main_vars, fs_vars, lock_vars, event_vars>>

\* Variant: a signal toggles the flag, so a second signal unsets it.
MainSignal_Toggle ==
  /\ main_pc # "done"
  /\ stop_event' = ~stop_event
  /\ signal_age' = IF signal_age < 0 THEN 0 ELSE signal_age
  /\ UNCHANGED <<main_pc, update_pc, main_wake, update_wake, update_elapsed,
                 update_failed>>
  /\ UNCHANGED <<pc, trigger_event, last_event_time, event_counter,
                 changed_paths, deleted_paths, handler_vars, sched_vars, wake,
                 pass_vars, history_vars, event_vars, fs_vars,
                 lock_vars>>

\* SIGTERM or SIGINT is delivered (monitor.py:250-255).
MainSignal ==
  /\ main_pc # "done"
  /\ stop_event' = TRUE
  /\ signal_age' = IF signal_age < 0 THEN 0 ELSE signal_age
  /\ UNCHANGED <<main_pc, update_pc, main_wake, update_wake, update_elapsed,
                 update_failed>>
  /\ UNCHANGED <<pc, trigger_event, last_event_time, event_counter,
                 changed_paths, deleted_paths, handler_vars, sched_vars, wake,
                 pass_vars, history_vars, event_vars, fs_vars,
                 lock_vars>>

\* A step of main() or of the update loop that takes no time is due.
MainUrgent ==
  \/ main_pc = "finally"
  \/ main_pc = "await_update" /\ update_pc = "done"
  \/ main_pc = "wait_for" /\ (update_pc = "done" \/ now >= main_wake)
  \/ main_pc = "join" /\ (pc = "exited" \/ now >= main_wake)
  \/ update_pc = "head"
  \/ update_pc = "sleep" /\ (stop_event \/ now >= update_wake)

\* One time unit passes for main() and the update loop.
MainTick ==
  /\ main_pc # "done"
  /\ ~MainUrgent
  /\ main_wake' = Past(main_wake)
  /\ update_wake' = Past(update_wake)
  /\ update_elapsed' =
       IF update_pc = "run_update_once"
       THEN Min({update_elapsed + 1, RUN_INTERVAL_SECONDS})
       ELSE update_elapsed
  /\ signal_age' = IF signal_age < 0 THEN signal_age
                   ELSE Min({signal_age + 1, MaxSignalAge})
  /\ UNCHANGED <<main_pc, update_pc, update_failed>>
  /\ UNCHANGED <<loop_vars, fs_vars, lock_vars>>

MainNext ==
  \/ UpdateHead
  \/ UpdateRunReturns
  \/ UpdateSleep
  \/ AwaitUpdate
  \/ MainFinally
  \/ MainDrain
  \/ run_mapping_loop_returns
  \/ MainSignal
  \/ MainTick


\* ------------------------------------------------------------ mapping.py
\* Paths are sequences of components.  cfg.src_dir and cfg.dst_dir:
src_dir == <<"src">>
dst_dir == <<"dst">>
\* The None a function returns in place of a path.
None == <<>>

\* Modification times: an older and a newer one.
Mtimes == {1, 2}

\* File names of the model, their suffix (Path.suffix), str.lower() on a
\* suffix, and the identifier get_avid extracts from a name ("" for none).
StrmNames == {"AB-1.strm", "CD-2.strm", "note.strm"}

PathSuffix(name) ==
  IF name \in StrmNames THEN ".strm"
  ELSE IF name = "EF-3.STRM" THEN ".STRM"
  ELSE IF name = "poster.jpg" THEN ".jpg"
  ELSE ""

Lower(suffix) == IF suffix = ".STRM" THEN ".strm" ELSE suffix

get_avid(name) ==
  CASE name = "AB-1.strm" -> "AB-1"
    [] name = "CD-2.strm" -> "CD-2"
    [] name = "EF-3.STRM" -> "EF-3"
    [] OTHER -> ""

\* pathlib: Path.parent, Path.name, Path.parents, Path.relative_to.
Parent(p) == IF p = <<>> THEN p ELSE SubSeq(p, 1, Len(p) - 1)
Name(p) == IF p = <<>> THEN "" ELSE p[Len(p)]
Parents(p) == {SubSeq(p, 1, n) : n \in 0..(Len(p) - 1)}
IsRelativeTo(p, d) == Len(d) <= Len(p) /\ SubSeq(p, 1, Len(d)) = d
RelativeTo(p, d) == SubSeq(p, Len(d) + 1, Len(p))

\* The filesystem is [dirs |-> set of paths, files |-> path -> file], a
\* file being [mtime, data].
Exists(f, p) == p \in f.dirs \/ p \in DOMAIN f.files
IsDir(f, p) == p \in f.dirs
Entries(f) == f.dirs \cup DOMAIN f.files
\* d.iterdir()
Children(f, d) ==
  {p \in Entries(f) : Len(p) = Len(d) + 1 /\ IsRelativeTo(p, d)}
\* d.glob('**/*')
Under(f, d) == {p \in Entries(f) : Len(p) > Len(d) /\ IsRelativeTo(p, d)}
\* d.glob('**/*.strm'): the pattern is matched case-sensitively.
GlobStrm(f, d) == {p \in Under(f, d) : PathSuffix(Name(p)) = ".strm"}
\* d.mkdir(parents=True, exist_ok=True)
Mkdir(f, d) ==
  [f EXCEPT !.dirs = @ \cup {q \in Parents(d) \cup {d} : q # <<>>}]
\* Variant: the content is copied and the modification time is that of
\* the copy, as with shutil.copy.
Copy_NewMtime(f, src, dst) ==
  [f EXCEPT !.files = [p \in DOMAIN f.files \cup {dst} |->
                         IF p = dst THEN [mtime |-> 2, data |-> f.files[src].data]
                         ELSE f.files[p]]]

\* shutil.copy2(src, dst): content and modification time.
Copy2(f, src, dst) ==
  [f EXCEPT !.files = [p \in DOMAIN f.files \cup {dst} |->
                         IF p = dst THEN f.files[src] ELSE f.files[p]]]
\* p.unlink()
Unlink(f, p) ==
  [f EXCEPT !.files = [q \in DOMAIN f.files \ {p} |-> f.files[q]]]
\* d.rmdir()
Rmdir(f, d) == [f EXCEPT !.dirs = @ \ {d}]
\* shutil.rmtree(d)
Rmtree(f, d) ==
  [dirs |-> {q \in f.dirs : ~IsRelativeTo(q, d)},
   files |-> [q \in {x \in DOMAIN f.files : ~IsRelativeTo(x, d)} |->
                f.files[q]]]

\* Counter() (mapping.py:13-21) and reset_counter (mapping.py:24-26).
NoCounts ==
  [files_processed |-> 0, files_updated |-> 0, files_skipped |-> 0,
   files_deleted |-> 0, dirs_deleted |-> 0]

reset_counter(st) == [st EXCEPT !.counter = NoCounts]

Count(st, field) == [st EXCEPT !.counter[field] = @ + 1]

\* Path.resolve(): the symbolic links on the way are followed.  No target of
\* a link of the model leads through another link, so one replacement of
\* the shortest linked prefix resolves the path.
NoLinks == <<>>

Resolve(p) ==
  LET hit == {n \in 1..Len(p) : SubSeq(p, 1, n) \in DOMAIN links}
  IN IF hit = {} THEN p
     ELSE LET n == CHOOSE k \in hit : \A m \in hit : k <= m
          IN links[SubSeq(p, 1, n)] \o SubSeq(p, n + 1, Len(p))

\* map_strm_path (mapping.py:29-40).
map_strm_path(src, sdir, ddir) ==
  IF Lower(PathSuffix(Name(src))) # ".strm" THEN None
  ELSE IF ~IsRelativeTo(Resolve(src), Resolve(sdir)) THEN None
  ELSE LET rel_path == RelativeTo(Resolve(src), Resolve(sdir))
           avid == get_avid(Name(src))
       IN IF avid = "" THEN None
          ELSE ddir \o Parent(rel_path) \o <<avid, Name(src)>>

\* Variant: the comparison is strict, so a destination as old as its
\* source is copied again.
CopyOrSkip_Strict(st, src, dst) ==
  LET made == Mkdir(st.fs, Parent(dst))
  IN IF Exists(made, dst) /\ made.files[src].mtime < made.files[dst].mtime
     THEN Count([st EXCEPT !.fs = made], "files_skipped")
     ELSE Count([st EXCEPT !.fs = Copy2(made, src, dst)], "files_updated")

\* mkdir, compare the modification times, skip or copy (mapping.py:50-60
\* and :119-128).
CopyOrSkip(st, src, dst) ==
  LET made == Mkdir(st.fs, Parent(dst))
  IN IF Exists(made, dst) /\ made.files[src].mtime <= made.files[dst].mtime
     THEN Count([st EXCEPT !.fs = made], "files_skipped")
     ELSE Count([st EXCEPT !.fs = Copy2(made, src, dst)], "files_updated")

\* update_one (mapping.py:43-69).
update_one(st, src, sdir, ddir) ==
  LET dst == map_strm_path(src, sdir, ddir)
  IN IF dst = None THEN st
     ELSE IF ~Exists(st.fs, src) THEN st
     ELSE CopyOrSkip(st, src, dst)

\* Variant: the walk removes at most one directory.
WalkUp_OneLevel(st, current, ddir) ==
  IF current = ddir \/ ddir \notin Parents(current) THEN st
  ELSE IF ~IsDir(st.fs, current) THEN st
  ELSE IF Children(st.fs, current) # {} THEN st
  ELSE Count([st EXCEPT !.fs = Rmdir(st.fs, current)], "dirs_deleted")

RECURSIVE WalkUp(_, _, _)
\* The while loop of delete_empty_dirs_for_path (mapping.py:75-86).
WalkUp(st, current, ddir) ==
  IF current = ddir \/ ddir \notin Parents(current) THEN st
  ELSE IF ~IsDir(st.fs, current) THEN WalkUp(st, Parent(current), ddir)
  ELSE IF Children(st.fs, current) # {} THEN st
  ELSE WalkUp(Count([st EXCEPT !.fs = Rmdir(st.fs, current)], "dirs_deleted"),
              Parent(current), ddir)

\* delete_empty_dirs_for_path (mapping.py:72-86).
delete_empty_dirs_for_path(st, path, ddir) ==
  IF ~Exists(st.fs, ddir) THEN st ELSE WalkUp(st, path, ddir)

\* Variant: a destination that is already absent is counted as deleted.
delete_one_counts_absent(st, src, sdir, ddir) ==
  LET dst == map_strm_path(src, sdir, ddir)
  IN IF dst = None THEN st
     ELSE IF ~Exists(st.fs, dst) THEN Count(st, "files_deleted")
     ELSE delete_empty_dirs_for_path(
            Count([st EXCEPT !.fs = Unlink(st.fs, dst)], "files_deleted"),
            Parent(dst), ddir)

\* delete_one (mapping.py:89-100).
delete_one(st, src, sdir, ddir) ==
  LET dst == map_strm_path(src, sdir, ddir)
  IN IF dst = None \/ ~Exists(st.fs, dst) THEN st
     ELSE delete_empty_dirs_for_path(
            Count([st EXCEPT !.fs = Unlink(st.fs, dst)], "files_deleted"),
            Parent(dst), ddir)

\* Body of the loop of update (mapping.py:109-129).
UpdateBody(st, src, sdir, ddir) ==
  LET rel_path == RelativeTo(src, sdir)
      avid == get_avid(Name(src))
  IN IF avid = "" THEN st
     ELSE CopyOrSkip(st, src, ddir \o Parent(rel_path) \o <<avid, Name(src)>>)

RECURSIVE UpdateAll(_, _, _, _)
UpdateAll(st, todo, sdir, ddir) ==
  IF todo = {} THEN st
  ELSE LET src == CHOOSE x \in todo : TRUE
       IN UpdateAll(UpdateBody(st, src, sdir, ddir), todo \ {src}, sdir, ddir)

\* update (mapping.py:103-129).
update(st, sdir, ddir) == UpdateAll(st, GlobStrm(st.fs, sdir), sdir, ddir)

\* The source path delete computes for a destination (mapping.py:137-138).
SourceOf(dst, ddir, sdir) ==
  LET src_rel_dir == Parent(Parent(RelativeTo(dst, ddir)))
  IN sdir \o src_rel_dir \o <<Name(dst)>>

\* Body of the loop of delete (mapping.py:137-142).
DeleteBody(st, dst, ddir, sdir) ==
  LET src == SourceOf(dst, ddir, sdir)
  IN IF ~Exists(st.fs, src)
     THEN Count([st EXCEPT !.fs = Unlink(st.fs, dst)], "files_deleted")
     ELSE st

RECURSIVE DeleteAll(_, _, _, _)
DeleteAll(st, todo, ddir, sdir) ==
  IF todo = {} THEN st
  ELSE LET dst == CHOOSE x \in todo : TRUE
       IN DeleteAll(DeleteBody(st, dst, ddir, sdir), todo \ {dst}, ddir, sdir)

\* delete (mapping.py:132-142).
delete(st, ddir, sdir) == DeleteAll(st, GlobStrm(st.fs, ddir), ddir, sdir)

RECURSIVE RmtreeAll(_, _)
\* The loop of delete_empty_dirs, deepest directory first (mapping.py:154,
\* :158-161).
RmtreeAll(st, todo) ==
  IF todo = {} THEN st
  ELSE LET d == CHOOSE x \in todo : \A y \in todo : Len(y) <= Len(x)
       IN RmtreeAll(Count([st EXCEPT !.fs = Rmtree(st.fs, d)], "dirs_deleted"),
                    todo \ {d})

\* Variant: the candidates include the destination root itself, as with
\* the pattern '**'.
delete_empty_dirs_with_root(st, ddir) ==
  LET empty_dirs == {p \in Under(st.fs, ddir) \cup {ddir} :
                       IsDir(st.fs, p) /\ GlobStrm(st.fs, p) = {}}
  IN IF empty_dirs = {} THEN st ELSE RmtreeAll(st, empty_dirs)

\* delete_empty_dirs (mapping.py:145-161).
delete_empty_dirs(st, ddir) ==
  LET empty_dirs == {p \in Under(st.fs, ddir) :
                       IsDir(st.fs, p) /\ GlobStrm(st.fs, p) = {}}
  IN IF empty_dirs = {} THEN st ELSE RmtreeAll(st, empty_dirs)

\* mapping.main (mapping.py:165-199); the result says whether it raised.
main(st) ==
  LET fresh == reset_counter(st)
  IN IF ~IsDir(fresh.fs, dst_dir) \/ ~IsDir(fresh.fs, src_dir)
     THEN [fs |-> fresh.fs, counter |-> fresh.counter, raised |-> TRUE]
     ELSE LET done == delete_empty_dirs(
                        delete(update(fresh, src_dir, dst_dir),
                               dst_dir, src_dir),
                        dst_dir)
          IN [fs |-> done.fs, counter |-> done.counter, raised |-> FALSE]

\* ---- the trees the executor is run on
SrcFiles == {<<"src", "a", "AB-1.strm">>, <<"src", "a", "CD-2.strm">>}
SrcNoAvid == <<"src", "a", "note.strm">>
\* A source file whose suffix is in upper case.
SrcUpper == <<"src", "a", "EF-3.STRM">>
SrcSlots == SrcFiles \cup {SrcNoAvid, SrcUpper}
DstImages == {<<"dst", "a", "AB-1", "AB-1.strm">>,
              <<"dst", "a", "CD-2", "CD-2.strm">>}
DstUpper == <<"dst", "a", "EF-3", "EF-3.STRM">>
\* A path outside the source root, and the paths the executor is called
\* with.
Elsewhere == <<"other", "AB-1.strm">>
ExecPaths == SrcSlots \cup {Elsewhere}
\* A mirrored file in a directory that is not named after its identifier,
\* and a file of another kind next to a mirrored file.
DstMisplaced == <<"dst", "a", "OLD", "AB-1.strm">>
DstPoster == <<"dst", "a", "AB-1", "poster.jpg">>

File(mtime, data) == [mtime |-> mtime, data |-> data]
\* Source files hold the content 1; a destination file holds 1 or 2.  One
\* source file and its destination take every modification time and
\* content, the other files the older time and the content 1; 0 stands for
\* an absent file.
SlotMtimes(path) ==
  IF path = <<"src", "a", "AB-1.strm">> THEN Mtimes ELSE {1}
SrcChoices == {s \in [SrcFiles -> {0} \cup Mtimes] :
                 \A p \in SrcFiles : s[p] \in {0} \cup SlotMtimes(p)}
DstChoices ==
  {d \in [DstImages -> {File(0, 0)} \cup [mtime : Mtimes, data : {1, 2}]] :
     \A p \in DstImages :
        p # <<"dst", "a", "AB-1", "AB-1.strm">> => d[p].mtime = d[p].data}

Tree(files, extra_dirs) ==
  [dirs |-> UNION {Parents(p) \ {<<>>} : p \in DOMAIN files} \cup extra_dirs,
   files |-> files]

InitialTree(s, note, upper, d, misplaced, poster, roots) ==
  LET present ==
        {p \in SrcFiles : s[p] # 0}
        \cup {p \in DstImages : d[p].mtime # 0}
        \cup (IF note THEN {SrcNoAvid} ELSE {})
        \cup (IF upper THEN {SrcUpper} ELSE {})
        \cup (IF misplaced = "file" THEN {DstMisplaced} ELSE {})
        \cup (IF poster THEN {DstPoster} ELSE {})
      files == [p \in present |->
                  IF p \in SrcFiles THEN File(s[p], 1)
                  ELSE IF p \in DstImages THEN d[p]
                  ELSE File(1, 1)]
  IN Tree(files,
          roots \cup (IF misplaced = "dir" THEN {Parent(DstMisplaced)}
                                           ELSE {}))

InitialTrees ==
  {InitialTree(s, note, upper, d, misplaced, poster, {src_dir, dst_dir}) :
     s \in SrcChoices, note \in BOOLEAN, upper \in BOOLEAN, d \in DstChoices,
     misplaced \in {"none", "dir", "file"}, poster \in BOOLEAN}
  \cup {Tree(<<>>, {src_dir}), Tree(<<>>, {dst_dir})}

\* No call in progress, nothing mapped yet.
ExecIdle ==
  /\ last_op = "none"
  /\ sync_raised = FALSE
  /\ prev_counter = NoCounts
  /\ last_path = None
  /\ mapped = None
  /\ recovered = None
  /\ exec_pc = "idle"
  /\ exec_todo = {}
  /\ vanished = FALSE

FsInit ==
  /\ links = NoLinks
  /\ fs \in InitialTrees
  /\ counter = NoCounts
  /\ ExecIdle

\* The executor at rest, in the specifications that follow the threads.
FsIdle ==
  /\ links = NoLinks
  /\ fs = Tree(<<>>, {src_dir, dst_dir})
  /\ counter = NoCounts
  /\ ExecIdle

Here == [fs |-> fs, counter |-> counter]

FullSyncs == {"full_sync", "full_sync_again"}

\* run_mapping_full (monitor.py:79-85) on the trees; "full_sync_again" when
\* nothing has happened since the previous full sync.
FullSync ==
  /\ LET r == main(Here)
     IN /\ fs' = r.fs
        /\ counter' = r.counter
        /\ sync_raised' = r.raised
  /\ last_op' = IF last_op \in FullSyncs THEN "full_sync_again"
                                         ELSE "full_sync"
  /\ prev_counter' = counter
  /\ last_path' = None
  /\ mapped' = None
  /\ UNCHANGED <<map_vars, exec_vars, loop_vars, main_vars, lock_vars>>

\* run_mapping_incremental({path}, {}) and ({}, {path}) on the trees
\* (monitor.py:93-107).
IncrementalUpdate(path) ==
  /\ LET r == update_one(reset_counter(Here), path, src_dir, dst_dir)
     IN fs' = r.fs /\ counter' = r.counter
  /\ sync_raised' = FALSE
  /\ last_op' = "update_one"
  /\ prev_counter' = NoCounts
  /\ last_path' = path
  /\ mapped' = map_strm_path(path, src_dir, dst_dir)
  /\ UNCHANGED <<map_vars, exec_vars, loop_vars, main_vars, lock_vars>>

IncrementalDelete(path) ==
  /\ LET r == delete_one(reset_counter(Here), path, src_dir, dst_dir)
     IN fs' = r.fs /\ counter' = r.counter
  /\ sync_raised' = FALSE
  /\ last_op' = "delete_one"
  /\ prev_counter' = NoCounts
  /\ last_path' = path
  /\ mapped' = map_strm_path(path, src_dir, dst_dir)
  /\ UNCHANGED <<map_vars, exec_vars, loop_vars, main_vars, lock_vars>>

\* Another process writes or removes a source file.
SourceWrite(path, mtime) ==
  /\ IsDir(fs, Parent(path))
  /\ fs' = [fs EXCEPT !.files =
              [p \in DOMAIN fs.files \cup {path} |->
                 IF p = path THEN File(mtime, 1) ELSE fs.files[p]]]
  /\ last_op' = "source_write"
  /\ last_path' = None
  /\ mapped' = None
  /\ UNCHANGED <<counter, sync_raised, prev_counter, map_vars, exec_vars,
                 loop_vars, main_vars, lock_vars>>

SourceRemove(path) ==
  /\ path \in DOMAIN fs.files
  /\ fs' = Unlink(fs, path)
  /\ last_op' = "source_remove"
  /\ last_path' = None
  /\ mapped' = None
  /\ UNCHANGED <<counter, sync_raised, prev_counter, map_vars, exec_vars,
                 loop_vars, main_vars, lock_vars>>

FsNext ==
  \/ FullSync
  \/ \E path \in ExecPaths : IncrementalUpdate(path)
  \/ \E path \in ExecPaths : IncrementalDelete(path)
  \/ \E path \in SrcSlots : \E mtime \in SlotMtimes(path) :
       SourceWrite(path, mtime)
  \/ \E path \in SrcSlots : SourceRemove(path)

\* ---- the executor step by step, next to a process that removes source
\* files.  exec_pc is "idle" between calls; a call that raises sets
\* sync_raised.
\* The source of the file the call is working on is removed, or that of a
\* file update() has enumerated and not yet visited.
InWindow(path) ==
  \/ exec_pc \in {"one_exists", "one_compare", "one_copy", "update_compare",
                  "update_copy"} /\ path = last_path
  \/ exec_pc \in {"update_next", "update_compare", "update_copy"}
     /\ path \in exec_todo /\ get_avid(Name(path)) # ""

\* run_mapping_incremental calls update_one(path): map_strm_path
\* (mapping.py:44-46).
UpdateOneCall(path) ==
  /\ exec_pc = "idle"
  /\ last_op' = "update_one"
  /\ counter' = NoCounts
  /\ sync_raised' = FALSE
  /\ vanished' = FALSE
  /\ last_path' = path
  /\ mapped' = map_strm_path(path, src_dir, dst_dir)
  /\ exec_pc' = IF mapped' = None THEN "idle" ELSE "one_exists"
  /\ UNCHANGED <<fs, prev_counter, map_vars, exec_todo, loop_vars, main_vars,
                 lock_vars>>

\* if not src.exists(): return (mapping.py:47-49).
UpdateOneExists ==
  /\ exec_pc = "one_exists"
  /\ exec_pc' = IF Exists(fs, last_path) THEN "one_compare" ELSE "idle"
  /\ UNCHANGED <<fs, counter, last_op, sync_raised, prev_counter, last_path,
                 mapped, map_vars, exec_todo, vanished, loop_vars, main_vars,
                 lock_vars>>

\* dst.parent.mkdir, then dst.exists() and the comparison of the two
\* st_mtime (mapping.py:50-52, :119-123); src.stat() raises
\* FileNotFoundError when the source is gone.  The call goes on at copy_pc
\* or returns to back.
CompareStep(copy_pc, back) ==
  LET made == Mkdir(fs, Parent(mapped))
  IN /\ fs' = made
     /\ IF ~Exists(made, mapped)
        THEN /\ exec_pc' = copy_pc
             /\ UNCHANGED <<counter, sync_raised, exec_todo>>
        ELSE IF last_path \notin DOMAIN made.files
        THEN /\ exec_pc' = "idle"
             /\ sync_raised' = TRUE
             /\ exec_todo' = {}
             /\ UNCHANGED counter
        ELSE IF made.files[last_path].mtime <= made.files[mapped].mtime
        THEN /\ exec_pc' = back
             /\ counter' = [counter EXCEPT !.files_skipped = @ + 1]
             /\ UNCHANGED <<sync_raised, exec_todo>>
        ELSE /\ exec_pc' = copy_pc
             /\ UNCHANGED <<counter, sync_raised, exec_todo>>
     /\ UNCHANGED <<last_op, prev_counter, last_path, mapped, map_vars,
                    vanished, loop_vars, main_vars, lock_vars>>

\* shutil.copy2(src, dst) and the count (mapping.py:59-60, :127-128);
\* copy2 raises FileNotFoundError when the source is gone.
CopyStep(back) ==
  /\ IF last_path \notin DOMAIN fs.files
     THEN /\ exec_pc' = "idle"
          /\ sync_raised' = TRUE
          /\ exec_todo' = {}
          /\ UNCHANGED <<fs, counter>>
     ELSE /\ exec_pc' = back
          /\ fs' = Copy2(fs, last_path, mapped)
          /\ counter' = [counter EXCEPT !.files_updated = @ + 1]
          /\ UNCHANGED <<sync_raised, exec_todo>>
  /\ UNCHANGED <<last_op, prev_counter, last_path, mapped, map_vars,
                 vanished, loop_vars, main_vars, lock_vars>>

UpdateOneCompare == exec_pc = "one_compare" /\ CompareStep("one_copy", "idle")

UpdateOneCopy == exec_pc = "one_copy" /\ CopyStep("idle")

\* run_mapping_full calls mapping.main(): reset, validation, and the
\* enumeration of update() (mapping.py:178-192, :108).
MainCall ==
  /\ exec_pc = "idle"
  /\ last_op' = "full_sync"
  /\ counter' = NoCounts
  /\ vanished' = FALSE
  /\ last_path' = None
  /\ mapped' = None
  /\ IF ~IsDir(fs, dst_dir) \/ ~IsDir(fs, src_dir)
     THEN /\ sync_raised' = TRUE
          /\ UNCHANGED <<exec_pc, exec_todo>>
     ELSE /\ sync_raised' = FALSE
          /\ exec_todo' = GlobStrm(fs, src_dir)
          /\ exec_pc' = "update_next"
  /\ UNCHANGED <<fs, prev_counter, map_vars, loop_vars, main_vars, lock_vars>>

\* The for loop of update() takes the next source (mapping.py:108-116).
UpdateNext ==
  /\ exec_pc = "update_next"
  /\ IF exec_todo = {}
     THEN /\ exec_pc' = "main_rest"
          /\ UNCHANGED <<exec_todo, last_path, mapped>>
     ELSE \E src \in exec_todo :
            /\ exec_todo' = exec_todo \ {src}
            /\ last_path' = src
            /\ LET avid == get_avid(Name(src))
               IN IF avid = ""
                  THEN /\ mapped' = None
                       /\ UNCHANGED exec_pc
                  ELSE /\ mapped' = dst_dir \o Parent(RelativeTo(src, src_dir))
                                      \o <<avid, Name(src)>>
                       /\ exec_pc' = "update_compare"
  /\ UNCHANGED <<fs, counter, last_op, sync_raised, prev_counter, map_vars,
                 vanished, loop_vars, main_vars, lock_vars>>

UpdateCompare ==
  exec_pc = "update_compare" /\ CompareStep("update_copy", "update_next")

UpdateCopy == exec_pc = "update_copy" /\ CopyStep("update_next")

\* delete() and delete_empty_dirs() of mapping.main (mapping.py:193-194).
MainRest ==
  /\ exec_pc = "main_rest"
  /\ LET done == delete_empty_dirs(delete(Here, dst_dir, src_dir), dst_dir)
     IN fs' = done.fs /\ counter' = done.counter
  /\ exec_pc' = "idle"
  /\ UNCHANGED <<last_op, sync_raised, prev_counter, last_path, mapped,
                 map_vars, exec_todo, vanished, loop_vars, main_vars,
                 lock_vars>>

\* Another process removes a source file, at any point of a call.
RaceRemove(path) ==
  /\ path \in DOMAIN fs.files
  /\ fs' = Unlink(fs, path)
  /\ vanished' = (vanished \/ InWindow(path))
  /\ UNCHANGED <<counter, last_op, sync_raised, prev_counter, last_path,
                 mapped, map_vars, exec_pc, exec_todo, loop_vars, main_vars,
                 lock_vars>>

RaceNext ==
  \/ \E path \in ExecPaths : UpdateOneCall(path)
  \/ UpdateOneExists
  \/ UpdateOneCompare
  \/ UpdateOneCopy
  \/ MainCall
  \/ UpdateNext
  \/ UpdateCompare
  \/ UpdateCopy
  \/ MainRest
  \/ \E path \in SrcSlots : RaceRemove(path)

\* ---- map_strm_path and the source path delete() computes, on paths in
\* and outside the source root, in filesystems with a symbolic link:
\* src/l to the directory src/a, src/l to a directory outside the source
\* root, or the file src/a/AB-1.strm to src/c/CD-2.strm.
MapDirs == {<<>>, <<"a">>, <<"a", "b">>, <<"c">>, <<"l">>}
MapNames == {"AB-1.strm", "CD-2.strm", "note.strm", "EF-3.STRM", "poster.jpg"}
MapSources ==
  {src_dir \o d \o <<n>> : d \in MapDirs, n \in MapNames} \cup {Elsewhere}

LinkChoices ==
  {NoLinks,
   <<"src", "l">> :> <<"src", "a">>,
   <<"src", "l">> :> <<"ext">>,
   <<"src", "a", "AB-1.strm">> :> <<"src", "c", "CD-2.strm">>}

MapInit ==
  /\ links \in LinkChoices
  /\ fs = Tree(<<>>, {src_dir, dst_dir})
  /\ counter = NoCounts
  /\ ExecIdle

\* A call of map_strm_path(src, cfg.src_dir, cfg.dst_dir).
MapPath(src) ==
  /\ last_op' = "map_strm_path"
  /\ last_path' = src
  /\ mapped' = map_strm_path(src, src_dir, dst_dir)
  /\ recovered' = None
  /\ UNCHANGED <<fs, counter, sync_raised, prev_counter, links, exec_vars,
                 loop_vars, main_vars, lock_vars>>

\* delete() computes the source path of the destination just mapped.
RecoverSource ==
  /\ last_op = "map_strm_path"
  /\ mapped # None
  /\ last_op' = "recover"
  /\ recovered' = SourceOf(mapped, dst_dir, src_dir)
  /\ UNCHANGED <<fs, counter, sync_raised, prev_counter, last_path, mapped,
                 links, exec_vars, loop_vars, main_vars, lock_vars>>

MapNext ==
  \/ \E src \in MapSources : MapPath(src)
  \/ RecoverSource

\* ---- the lock of run_mapping_loop (monitor.py:157), section by section.
\* lock_pc is the position of the mapping thread: a `with lock:` block, named
\* below by what it does, or a statement between two of them.  Which way
\* the thread goes on at a branch is left open.
\* The `with lock:` blocks of run_mapping_loop (monitor.py:178-179,
\* :183-193, :202-203, :210-215, :224-227, :230-232, :236-239).
LockSections ==
  {"read_counter_before", "compare_and_clear", "read_last_seen",
   "snapshot_and_clear", "requeue", "read_after", "final_check"}
\* Positions inside mapping.main() or run_mapping_incremental
\* (monitor.py:170, :181, :218), and inside a wait (monitor.py:172, :199,
\* :206).
IOStates == {"initial_full", "scheduled_full", "incremental"}
WaitStates == {"startup_wait", "idle_wait", "debounce_sleep"}

\* The positions that can follow a position (monitor.py:169-243).
After(at) ==
  CASE at = "initial_full" ->
         IF stop_event THEN {"loop_head"} ELSE {"loop_head", "startup_wait"}
    [] at = "startup_wait" ->
         IF stop_event THEN {"finally"} ELSE {"initial_full"}
    [] at = "loop_head" ->
         IF stop_event THEN {"finally"}
         ELSE {"read_counter_before", "idle_wait"}
    [] at = "read_counter_before" -> {"scheduled_full"}
    [] at = "scheduled_full" -> {"compare_and_clear"}
    [] at = "compare_and_clear" -> {"loop_head"}
    [] at = "idle_wait" -> {"loop_head", "drain_head"}
    [] at = "drain_head" ->
         IF stop_event THEN {"loop_head"} ELSE {"read_last_seen"}
    [] at = "read_last_seen" -> {"debounce_sleep", "snapshot_and_clear"}
    [] at = "debounce_sleep" ->
         IF stop_event THEN {"finally"} ELSE {"drain_head"}
    [] at = "snapshot_and_clear" -> {"incremental", "read_after"}
    [] at = "incremental" -> {"requeue", "read_after"}
    [] at = "requeue" -> {"loop_head"}
    [] at = "read_after" -> {"drain_head", "clear_trigger"}
    [] at = "clear_trigger" -> {"final_check"}
    [] at = "final_check" -> {"drain_head", "loop_head"}
    [] at = "finally" -> {"exited"}
    [] OTHER -> {}

\* `with lock:` is entered: the lock is acquired when it is free.
LoopEnter ==
  /\ lock_pc \in LockSections
  /\ lock = "free"
  /\ lock' = "loop"
  /\ UNCHANGED <<lock_pc, cb_pc, loop_vars, main_vars, fs_vars>>

\* Variant: the block entered at monitor.py:178 extends over the scheduled
\* full sync and ends at monitor.py:193.
LoopExit_AcrossSync ==
  /\ lock_pc \in LockSections
  /\ lock = "loop"
  /\ \E next \in After(lock_pc) : lock_pc' = next
  /\ lock' = IF lock_pc = "read_counter_before" THEN "loop" ELSE "free"
  /\ UNCHANGED <<cb_pc, loop_vars, main_vars, fs_vars>>

\* The end of a `with lock:` block: the lock is released.
LoopExit ==
  /\ lock_pc \in LockSections
  /\ lock = "loop"
  /\ \E next \in After(lock_pc) : lock_pc' = next
  /\ lock' = "free"
  /\ UNCHANGED <<cb_pc, loop_vars, main_vars, fs_vars>>

\* A statement outside the `with lock:` blocks ends.
LoopStep ==
  /\ lock_pc \notin LockSections
  /\ \E next \in After(lock_pc) : lock_pc' = next
  /\ UNCHANGED <<lock, cb_pc, loop_vars, main_vars, fs_vars>>

\* _record_event reaches `with self._lock:` (monitor.py:53), acquires the
\* lock, and releases it (monitor.py:54-61).
CallbackArrives ==
  /\ cb_pc = "idle"
  /\ lock_pc # "exited"
  /\ cb_pc' = "waiting"
  /\ UNCHANGED <<lock, lock_pc, loop_vars, main_vars, fs_vars>>

CallbackEnter ==
  /\ cb_pc = "waiting"
  /\ lock = "free"
  /\ lock' = "handler"
  /\ cb_pc' = "holding"
  /\ UNCHANGED <<lock_pc, loop_vars, main_vars, fs_vars>>

CallbackExit ==
  /\ cb_pc = "holding"
  /\ lock' = "free"
  /\ cb_pc' = "idle"
  /\ UNCHANGED <<lock_pc, loop_vars, main_vars, fs_vars>>

LockNext ==
  \/ LoopEnter
  \/ LoopExit
  \/ LoopStep
  \/ CallbackArrives
  \/ CallbackEnter
  \/ CallbackExit
  \/ handle_shutdown

\* ---- the startup loop of run_mapping_loop with mapping.main() run on the
\* trees (monitor.py:170-174, :79-85).
\* Trees with a root missing, with both roots, and with one source file.
StartupTrees ==
  {Tree(<<>>, {src_dir}), Tree(<<>>, {dst_dir}), Tree(<<>>, {src_dir, dst_dir}),
   Tree([p \in {<<"src", "a", "AB-1.strm">>} |-> File(1, 1)], {dst_dir})}

\* Variant: an initial full sync that raises ends run_mapping_loop.
InitialFullRun_Fatal ==
  /\ pc = "initial_full"
  /\ LET r == main(Here)
     IN /\ fs' = r.fs
        /\ counter' = r.counter
        /\ sync_raised' = r.raised
        /\ IF run_mapping_full(r.raised)
           THEN /\ baseline' = TRUE
                /\ next_full_sync' = now + FULL_SYNC_INTERVAL_SECONDS
                /\ pc' = "loop_head"
           ELSE /\ pc' = "finally"
                /\ UNCHANGED <<baseline, next_full_sync>>
  /\ last_op' = IF last_op \in FullSyncs THEN "full_sync_again"
                                         ELSE "full_sync"
  /\ prev_counter' = counter
  /\ UNCHANGED <<shared_vars, handler_vars, counter_before, success, wake,
                 pass_vars, accepted_in_sync, retry_vars, burst>>
  /\ UNCHANGED <<last_path, mapped, map_vars, exec_vars, main_vars,
                 lock_vars, event_vars>>

\* The initial run_mapping_full() (monitor.py:170-174) calling
\* mapping.main() on the trees (monitor.py:79-85).
InitialFullRun ==
  /\ pc = "initial_full"
  /\ LET r == main(Here)
     IN /\ fs' = r.fs
        /\ counter' = r.counter
        /\ sync_raised' = r.raised
        /\ IF run_mapping_full(r.raised)
           THEN /\ baseline' = TRUE
                /\ next_full_sync' = now + FULL_SYNC_INTERVAL_SECONDS
                /\ pc' = "loop_head"
                /\ UNCHANGED wake
           ELSE /\ wake' = now + DEBOUNCE_SECONDS
                /\ pc' = "startup_wait"
                /\ UNCHANGED <<baseline, next_full_sync>>
  /\ last_op' = IF last_op \in FullSyncs THEN "full_sync_again"
                                         ELSE "full_sync"
  /\ prev_counter' = counter
  /\ UNCHANGED <<shared_vars, handler_vars, counter_before, success,
                 pass_vars, accepted_in_sync, retry_vars, burst>>
  /\ UNCHANGED <<last_path, mapped, map_vars, exec_vars, main_vars,
                 lock_vars, event_vars>>

\* The mapping thread up to the end of its startup loop, and its exit.
StartupNext ==
  \/ StartupCheck
  \/ InitialFullRun
  \/ StartupWait
  \/ ObserverStop
  \/ ObserverJoin
  \/ handle_shutdown
  \/ Tick

\* ---- incremental batches next to the full sync, on the trees.  The
\* pending sets hold the paths of the trees; every change of a source file
\* is followed by its accepted callback (monitor.py:64-76, :47-62).
\* Destinations as a successful mapping.main() leaves them.
SyncedTrees ==
  {main([fs |-> t, counter |-> NoCounts]).fs :
     t \in {x \in InitialTrees : ~main([fs |-> x, counter |-> NoCounts]).raised}}

RECURSIVE DeleteEach(_, _)
\* The delete loop of run_mapping_incremental (monitor.py:96-101).
DeleteEach(st, todo) ==
  IF todo = {} THEN st
  ELSE LET path == CHOOSE x \in todo : TRUE
       IN DeleteEach(delete_one(st, path, src_dir, dst_dir), todo \ {path})

RECURSIVE UpdateEach(_, _)
\* The update loop of run_mapping_incremental (monitor.py:102-107).
UpdateEach(st, todo) ==
  IF todo = {} THEN st
  ELSE LET path == CHOOSE x \in todo : TRUE
       IN UpdateEach(update_one(st, path, src_dir, dst_dir), todo \ {path})

\* A source file is written and on_created or on_modified records it.
WatchedWrite(path, mtime) ==
  /\ IsDir(fs, Parent(path))
  /\ fs' = [fs EXCEPT !.files =
              [p \in DOMAIN fs.files \cup {path} |->
                 IF p = path THEN File(mtime, 1) ELSE fs.files[p]]]
  /\ deleted_paths' = deleted_paths \ {path}
  /\ changed_paths' = changed_paths \cup {path}
  /\ trigger_event' = TRUE
  /\ last_op' = "source_write"
  /\ UNCHANGED <<pc, stop_event, last_event_time, event_counter,
                 handler_vars, sched_vars, wake, pass_vars, history_vars,
                 event_vars>>
  /\ UNCHANGED <<counter, sync_raised, prev_counter, last_path, mapped,
                 map_vars, exec_vars, main_vars, lock_vars>>

\* A source file is removed and on_deleted records it.
WatchedRemove(path) ==
  /\ path \in DOMAIN fs.files
  /\ fs' = Unlink(fs, path)
  /\ changed_paths' = changed_paths \ {path}
  /\ deleted_paths' = deleted_paths \cup {path}
  /\ trigger_event' = TRUE
  /\ last_op' = "source_remove"
  /\ UNCHANGED <<pc, stop_event, last_event_time, event_counter,
                 handler_vars, sched_vars, wake, pass_vars, history_vars,
                 event_vars>>
  /\ UNCHANGED <<counter, sync_raised, prev_counter, last_path, mapped,
                 map_vars, exec_vars, main_vars, lock_vars>>

\* One pass of the drain loop in which no call raises: snapshot-and-clear,
\* run_mapping_incremental, trigger_event.clear() (monitor.py:210-240,
\* :88-115).
QuietBatch ==
  /\ changed_paths \cup deleted_paths # {}
  /\ LET r == UpdateEach(DeleteEach(reset_counter(Here), deleted_paths),
                         changed_paths)
     IN fs' = r.fs /\ counter' = r.counter
  /\ changed_paths' = {}
  /\ deleted_paths' = {}
  /\ trigger_event' = FALSE
  /\ sync_raised' = FALSE
  /\ last_op' = "incremental"
  /\ UNCHANGED <<pc, stop_event, last_event_time, event_counter,
                 handler_vars, sched_vars, wake, pass_vars, history_vars,
                 event_vars>>
  /\ UNCHANGED <<prev_counter, last_path, mapped, map_vars, exec_vars,
                 main_vars, lock_vars>>

BatchNext ==
  \/ \E path \in SrcSlots : \E mtime \in SlotMtimes(path) :
       WatchedWrite(path, mtime)
  \/ \E path \in SrcSlots : WatchedRemove(path)
  \/ QuietBatch

\* ---- mapping_monitor.py: the standalone monitor.  It has a trigger and
\* last_event_time but neither pending sets nor a counter nor a flag; its
\* positions are "start" and those named "standalone_...".  changed_paths
\* is a history variable here: the paths of the callbacks accepted since
\* the last mapping run started; in the inner loop these are the callbacks
\* whose time `last_after > run_started` finds (mapping_monitor.py:82-87);
\* event_counter counts the accepted callbacks, at most MaxEvents.
standalone_rest ==
  <<stop_event, deleted_paths, observer, next_full_sync,
    counter_before, success, changed_snapshot, deleted_snapshot,
    counter_snapshot, failed_changed, failed_deleted, counter_after, calls,
    raised_calls, baseline, accepted_in_sync, requeued, requeue_time, burst,
    move_dest, last_kind, touched, main_vars, fs_vars, lock_vars>>

\* StrmChangeHandler._mark up to the end of its lock section
\* (mapping_monitor.py:25-31); set_trigger is its last statement.
mark(path, is_directory) ==
  /\ handler_pc = "idle"
  /\ IF Filtered(path, is_directory)
     THEN /\ filtered' = TRUE
          /\ UNCHANGED <<last_event_time, event_counter, changed_paths,
                         handler_pc>>
     ELSE /\ event_counter < MaxEvents
          /\ event_counter' = event_counter + 1
          /\ filtered' = FALSE
          /\ last_event_time' = now
          /\ changed_paths' = changed_paths \cup {path}
          /\ handler_pc' = "set_trigger"
  /\ UNCHANGED <<pc, trigger_event, wake, run_started, standalone_rest>>

\* `while not run_mapping()` (mapping_monitor.py:69-71).
StandaloneStartup ==
  /\ pc = "start"
  /\ \E raised \in BOOLEAN :
       IF run_mapping_full(raised)
       THEN pc' = "standalone_wait" /\ UNCHANGED wake
       ELSE pc' = "standalone_retry" /\ wake' = now + DEBOUNCE_SECONDS
  /\ UNCHANGED <<trigger_event, last_event_time, event_counter,
                 changed_paths, handler_pc, run_started, filtered,
                 standalone_rest>>

\* time.sleep(DEBOUNCE_SECONDS) returns and run_mapping() is called again
\* (mapping_monitor.py:69-71).
StandaloneRetry ==
  /\ pc = "standalone_retry"
  /\ now >= wake
  /\ wake' = 0
  /\ changed_paths' = {}
  /\ pc' = "start"
  /\ UNCHANGED <<trigger_event, last_event_time, event_counter, handler_pc,
                 run_started, filtered, standalone_rest>>

\* trigger_event.wait() returns (mapping_monitor.py:74).
StandaloneWait ==
  /\ pc = "standalone_wait"
  /\ trigger_event
  /\ pc' = "standalone_debounce"
  /\ UNCHANGED <<trigger_event, last_event_time, event_counter,
                 changed_paths, handler_pc, wake, run_started, filtered,
                 standalone_rest>>

\* Head of the inner loop up to run_started (mapping_monitor.py:76-83).
StandaloneDebounce ==
  /\ pc = "standalone_debounce"
  /\ LET last_seen == last_event_time
         since == now - last_seen
     IN IF since < DEBOUNCE_SECONDS
        THEN /\ wake' = now + (DEBOUNCE_SECONDS - since)
             /\ pc' = "standalone_sleep"
             /\ UNCHANGED <<run_started, changed_paths>>
        ELSE /\ run_started' = now
             /\ changed_paths' = {}
             /\ pc' = "standalone_run"
             /\ UNCHANGED wake
  /\ UNCHANGED <<trigger_event, last_event_time, event_counter, handler_pc,
                 filtered, standalone_rest>>

\* time.sleep(DEBOUNCE_SECONDS - since) returns (mapping_monitor.py:80-81).
StandaloneSleep ==
  /\ pc = "standalone_sleep"
  /\ now >= wake
  /\ wake' = 0
  /\ pc' = "standalone_debounce"
  /\ UNCHANGED <<trigger_event, last_event_time, event_counter,
                 changed_paths, handler_pc, run_started, filtered,
                 standalone_rest>>

\* run_mapping() returns and last_after is read and compared
\* (mapping_monitor.py:84-88).
StandaloneRun ==
  /\ pc = "standalone_run"
  /\ pc' = IF changed_paths # {} THEN "standalone_debounce"
                                 ELSE "standalone_clear"
  /\ UNCHANGED <<trigger_event, last_event_time, event_counter,
                 changed_paths, handler_pc, wake, run_started, filtered,
                 standalone_rest>>

\* trigger_event.clear() and break (mapping_monitor.py:89-90).
StandaloneClear ==
  /\ pc = "standalone_clear"
  /\ trigger_event' = FALSE
  /\ pc' = "standalone_wait"
  /\ UNCHANGED <<last_event_time, event_counter, changed_paths, handler_pc,
                 wake, run_started, filtered, standalone_rest>>

\* Time passes while the standalone monitor waits, sleeps or runs
\* mapping.main().
StandaloneTick ==
  /\ pc \in {"start", "standalone_retry", "standalone_wait",
             "standalone_sleep", "standalone_run"}
  /\ Tick

StandaloneLoop ==
  \/ StandaloneStartup
  \/ StandaloneRetry
  \/ StandaloneWait
  \/ StandaloneDebounce
  \/ StandaloneSleep
  \/ StandaloneRun
  \/ StandaloneClear

StandaloneNext ==
  \/ StandaloneLoop
  \/ \E path \in EventPaths, is_directory \in BOOLEAN : mark(path, is_directory)
  \/ set_trigger
  \/ StandaloneTick

Init == LoopInit /\ MainIdle /\ FsIdle

LoopNext ==
  \/ StartupCheck
  \/ InitialFull
  \/ StartupWait
  \/ LoopHead
  \/ ScheduledFull
  \/ ScheduledPost
  \/ IdleWait
  \/ Debounce
  \/ DebounceSleep
  \/ Snapshot
  \/ RunIncremental
  \/ PostBatch
  \/ Recheck
  \/ ClearTrigger
  \/ FinalCheck
  \/ ObserverStop
  \/ ObserverJoin

HandlerNext ==
  \/ \E path \in EventPaths, is_directory \in BOOLEAN :
       \/ on_created(path, is_directory)
       \/ on_modified(path, is_directory)
       \/ on_deleted(path, is_directory)
       \/ \E dest_path \in EventPaths : on_moved(path, dest_path, is_directory)
  \/ set_trigger
  \/ MovedDest

Next == LoopNext \/ HandlerNext \/ handle_shutdown \/ Tick

Spec == Init /\ [][Next]_vars

\* Positions at which the mapping thread is inside a wait, inside a mapping
\* run or a join, or has ended.  Every other position is a lock section or
\* a flag operation that completes in far less than one time unit.
TimedStates ==
  {"initial_full", "startup_wait", "scheduled_full", "idle_wait",
   "debounce_sleep", "incremental", "join", "exited"}

TimedTick == pc \in TimedStates /\ Tick

FairNext == LoopNext \/ HandlerNext \/ handle_shutdown \/ TimedTick

\* The threads keep running: every step of run_mapping_loop returns, the
\* dispatcher thread reaches its trigger_event.set(), and time passes, but
\* not while the mapping thread is in one of its short steps.
FairSpec ==
  Init /\ [][FairNext]_vars
       /\ WF_vars(LoopNext) /\ WF_vars(set_trigger) /\ WF_vars(MovedDest)
       /\ WF_vars(TimedTick)

\* ---- callbacks without end.  event_counter is only ever compared with
\* the values run_mapping_loop read from it (monitor.py:185-189, :233,
\* :237), so once it has reached MaxEvents a further accepted callback
\* leaves it there and moves those values one down instead.
record_event_saturated(path) ==
  /\ observer = "running"
  /\ handler_pc = "idle"
  /\ ~Filtered(path, FALSE)
  /\ event_counter = MaxEvents
  /\ last_event_time' = now
  /\ counter_before' = Past(counter_before)
  /\ counter_snapshot' = Past(counter_snapshot)
  /\ counter_after' = Past(counter_after)
  /\ deleted_paths' = deleted_paths \ {path}
  /\ changed_paths' = changed_paths \cup {path}
  /\ handler_pc' = "set_trigger"
  /\ accepted_in_sync' = (pc \in SchedStates)
  /\ burst' = BurstAfterEvent(path, FALSE)
  /\ filtered' = FALSE
  /\ move_dest' = NoPath
  /\ last_kind' = [last_kind EXCEPT ![path] = "changed"]
  /\ touched' = touched \ {path}
  /\ UNCHANGED <<pc, stop_event, trigger_event, event_counter, observer,
                 next_full_sync, success, wake, run_started,
                 changed_snapshot, deleted_snapshot, failed_changed,
                 failed_deleted, calls, raised_calls, baseline, retry_vars>>
  /\ UNCHANGED <<main_vars, fs_vars, lock_vars>>

\* run_mapping_loop while shutdown is not requested and files keep being
\* modified.
BusyNext ==
  \/ StartupCheck
  \/ InitialFull
  \/ StartupWait
  \/ LoopHead
  \/ ScheduledFull
  \/ ScheduledPost
  \/ IdleWait
  \/ Debounce
  \/ DebounceSleep
  \/ Snapshot
  \/ RunIncremental
  \/ PostBatch
  \/ Recheck
  \/ ClearTrigger
  \/ FinalCheck
  \/ \E path \in StrmPaths : on_modified(path, FALSE)
  \/ \E path \in StrmPaths : record_event_saturated(path)
  \/ set_trigger
  \/ TimedTick

\* The mapping thread and the dispatcher thread keep running and time
\* passes; whether a callback arrives is left open.
BusySpec ==
  Init /\ [][BusyNext]_vars
       /\ WF_vars(LoopNext) /\ WF_vars(set_trigger) /\ WF_vars(TimedTick)

\* main() with the update loop; the mapping thread by its end only.
MainSpecInit == LoopInit /\ MainInit /\ FsIdle

MainSpec == MainSpecInit /\ [][MainNext]_vars

\* The sync executor run on every initial pair of trees.
FsSpecInit == LoopInit /\ MainIdle /\ FsInit

FsSpec == FsSpecInit /\ [][FsNext]_vars

\* The mapper and its inverse on every path of MapSources.
MapSpecInit == LoopInit /\ MainIdle /\ MapInit

MapSpec == MapSpecInit /\ [][MapNext]_vars

\* The sync executor step by step while source files are removed.
RaceSpecInit == LoopInit /\ MainIdle /\ FsInit

RaceSpec == RaceSpecInit /\ [][RaceNext]_vars

\* The dispatcher thread alone: the callbacks of StrmChangeHandler as time
\* passes, while the mapping thread has not yet taken a step.
HandlerSpecInit == LoopInit /\ MainIdle /\ FsIdle

HandlerSpecNext == HandlerNext \/ Tick

HandlerSpec == HandlerSpecInit /\ [][HandlerSpecNext]_vars

\* The mapping thread and a callback around the lock.
LockSpecInit == LoopInit /\ MainIdle /\ FsIdle

LockSpec == LockSpecInit /\ [][LockNext]_vars

\* The startup loop on trees with and without their roots.
StartupSpecInit ==
  /\ LoopInit
  /\ MainIdle
  /\ links = NoLinks
  /\ fs \in StartupTrees
  /\ counter = NoCounts
  /\ ExecIdle

StartupSpec == StartupSpecInit /\ [][StartupNext]_vars

\* Incremental batches on a destination a full sync has produced.
BatchSpecInit ==
  /\ LoopInit
  /\ MainIdle
  /\ links = NoLinks
  /\ fs \in SyncedTrees
  /\ counter = NoCounts
  /\ ExecIdle

BatchSpec == BatchSpecInit /\ [][BatchNext]_vars

\* Both loops of the monitor next to each other: run_mapping_loop with the
\* callbacks of one file, run_update_loop, and the signal handler.
ShutdownSpecInit == LoopInit /\ MainInit /\ FsIdle

ShutdownNext ==
  \/ LoopNext
  \/ \E path \in StrmPaths : path = Min(StrmPaths) /\ on_modified(path, FALSE)
  \/ set_trigger
  \/ handle_shutdown
  \/ Tick
  \/ UpdateHead
  \/ UpdateRunReturns
  \/ UpdateSleep
  \/ MainTick

ShutdownSpec == ShutdownSpecInit /\ [][ShutdownNext]_vars

\* The standalone monitor: its loop and the dispatcher thread keep running
\* and time passes; whether a callback arrives is left open.
StandaloneSpec ==
  Init /\ [][StandaloneNext]_vars
       /\ WF_vars(StandaloneLoop) /\ WF_vars(set_trigger)
       /\ WF_vars(StandaloneTick)

\* ================================================================ claims
Pending == changed_paths \cup deleted_paths

\* C1: no path is in the live changed set and the live deleted set at the
\* same time.
C1_NeverInBoth == changed_paths \cap deleted_paths = {}

\* C2: the step after a scheduled full sync empties both pending sets
\* exactly when the sync succeeded and event_counter still has the value
\* read before it, and leaves them as they are otherwise; when a callback
\* was accepted while the sync ran, no path is removed.
C2_ClearedIffQuietSuccess ==
  [][(pc = "scheduled_post" /\ pc' # pc) =>
       /\ IF success /\ event_counter = counter_before
          THEN changed_paths' = {} /\ deleted_paths' = {}
          ELSE /\ changed_paths' = changed_paths
               /\ deleted_paths' = deleted_paths
       /\ accepted_in_sync => /\ changed_paths \subseteq changed_paths'
                              /\ deleted_paths \subseteq deleted_paths']_vars

C2_Witness ==
  /\ pc = "scheduled_post"
  /\ success
  /\ accepted_in_sync
  /\ Pending # {}

\* C3 as stated: unless shutdown is requested, every pending path
\* eventually leaves the pending sets.
C3_Original ==
  \A p \in StrmPaths : (p \in Pending) ~> (p \notin Pending \/ stop_event)

\* C3, amended: unless shutdown is requested, every path pending once the
\* initial full sync has succeeded eventually leaves the pending sets, and
\* a path leaves them only into the snapshot of a batch or by the clear
\* after a successful scheduled full sync during which no callback was
\* accepted.  (At most MaxEvents callbacks are accepted in a behaviour.)
C3_NoEventLost ==
  /\ \A p \in StrmPaths :
       (p \in Pending /\ baseline) ~> (p \notin Pending \/ stop_event)
  /\ [][\A p \in StrmPaths :
          (p \in Pending /\ p \notin Pending') =>
             \/ pc = "snapshot" /\ p \in changed_snapshot' \cup deleted_snapshot'
             \/ pc = "scheduled_post" /\ success /\ ~accepted_in_sync]_vars

\* A callback accepted between the re-check and trigger_event.clear().
C3_Witness ==
  /\ pc = "final_check"
  /\ ~trigger_event
  /\ handler_pc = "idle"
  /\ event_counter > counter_after
  /\ Pending # {}

\* A path put back by a requeue leaves the requeued paths by the step
\* `how` only.
RequeuedLeaveOnlyBy(how(_)) ==
  \A p \in StrmPaths : (p \in requeued /\ p \notin requeued') => how(p)

IntoSnapshot(p) ==
  pc = "snapshot" /\ p \in changed_snapshot' \cup deleted_snapshot'

IntoSnapshotOrQuietSync(p) ==
  \/ IntoSnapshot(p)
  \/ pc = "scheduled_post" /\ success /\ ~accepted_in_sync

\* The requeue step itself, and the debounce window before the retry.
RequeueStep ==
  (pc = "post_batch" /\ pc' # pc
     /\ (failed_changed # {} \/ failed_deleted # {})) =>
    /\ failed_changed \subseteq changed_paths'
    /\ failed_deleted \subseteq deleted_paths'
    /\ last_event_time' = now
    /\ trigger_event'
    /\ requeued' = failed_changed \cup failed_deleted

RetryAfterWindow ==
  (pc = "snapshot" /\ requeued # {}) =>
    /\ now - requeue_time >= DEBOUNCE_SECONDS
    /\ requeued \subseteq Pending

Quiet ==
  /\ pc \in {"loop_head", "idle_wait"}
  /\ ~trigger_event
  /\ handler_pc = "idle"
  /\ Pending = {}

BurstPaths(kind) == {p \in StrmPaths : burst.class[p] = kind}

OneBatchPerBurst ==
  /\ burst.batches <= 1
  /\ Quiet => burst.batches = 1
  /\ (pc = "incremental" /\ burst.batches = 0) =>
       /\ changed_snapshot = BurstPaths("changed")
       /\ deleted_snapshot = BurstPaths("deleted")

C6_DeletesBeforeUpdates ==
  pc = "post_batch" =>
    /\ \A i, j \in DOMAIN calls :
         (calls[i].op = "delete_one" /\ calls[j].op = "update_one") => i < j
    /\ {calls[i] : i \in DOMAIN calls} =
         {Call("delete_one", p) : p \in deleted_snapshot}
         \cup {Call("update_one", p) : p \in changed_snapshot}
    /\ Len(calls) = Cardinality(deleted_snapshot) + Cardinality(changed_snapshot)

C6_Witness ==
  /\ pc = "post_batch"
  /\ failed_deleted # {}
  /\ changed_snapshot # {}
  /\ failed_changed = {}

\* C7: a scheduled full sync or an incremental batch runs only after the
\* initial full sync has returned True; an initial full sync that returns
\* False is followed by a wait of DEBOUNCE_SECONDS and another attempt; and
\* until the initial full sync has returned True no path leaves the pending
\* sets.
RunStates ==
  {"scheduled_full", "scheduled_post", "snapshot", "incremental", "post_batch"}

C7_StartupGate ==
  /\ [](pc \in RunStates => baseline)
  /\ [][/\ ~baseline => Pending \subseteq Pending'
        /\ (pc = "initial_full" /\ pc' # pc /\ ~baseline') =>
             (pc' = "startup_wait" /\ wake' = now + DEBOUNCE_SECONDS)
        /\ (pc = "startup_wait" /\ pc' # pc /\ ~stop_event) =>
             (pc' = "start" /\ now >= wake)
        /\ (pc = "start" /\ pc' # pc /\ ~stop_event) =>
             pc' = "initial_full"]_vars

C7_Witness ==
  /\ pc = "startup_wait"
  /\ ~baseline
  /\ trigger_event
  /\ Pending # {}

\* C8: once the flag is set run_mapping_loop reaches its end, and it ends
\* only with the observer stopped and joined.
C8_LoopExits ==
  /\ stop_event ~> (pc = "exited")
  /\ [](pc = "exited" => observer = "joined")

C8_Witness ==
  /\ stop_event
  /\ pc = "exited"
  /\ observer = "joined"
  /\ Pending # {}

\* C9: after the first signal main() has returned once both timeouts have
\* run out, whatever the two loops are doing.
C9_ExitWithinTimeouts ==
  signal_age > 2 * SHUTDOWN_TIMEOUT_SECONDS => main_pc = "done"

\* C10: a full sync that follows a full sync with nothing happening in
\* between updates nothing, deletes nothing and leaves the trees as they
\* are.
C10_FullSyncIdempotent ==
  [][last_op' = "full_sync_again" =>
       /\ counter'.files_updated = 0
       /\ counter'.files_deleted = 0
       /\ counter'.dirs_deleted = 0
       /\ fs' = fs]_vars

\* The second of two full syncs, the first of which copied, deleted and
\* pruned.
C10_Witness ==
  /\ last_op = "full_sync_again"
  /\ ~sync_raised
  /\ prev_counter.files_updated > 0
  /\ prev_counter.files_deleted > 0
  /\ prev_counter.dirs_deleted > 0
  /\ counter.files_skipped > 0

\* The eligible files under the source root: the files map_strm_path gives
\* a destination for.
Eligible(f) ==
  {p \in DOMAIN f.files :
     IsRelativeTo(p, src_dir) /\ map_strm_path(p, src_dir, dst_dir) # None}

\* C11: a full sync that returns without raising leaves, for every eligible
\* file under the source root, a destination at the mapped path with the
\* same content and a modification time not earlier than the source's; run
\* on an empty destination with exactly one eligible source file it counts
\* updated = 1, skipped = 0, deleted = 0.
C11_FullSyncComplete ==
  [][(last_op' \in FullSyncs /\ ~sync_raised') =>
       /\ \A p \in Eligible(fs') :
            LET dst == map_strm_path(p, src_dir, dst_dir)
            IN /\ dst \in DOMAIN fs'.files
               /\ fs'.files[dst].data = fs'.files[p].data
               /\ fs'.files[dst].mtime >= fs'.files[p].mtime
       /\ (Under(fs, dst_dir) = {} /\ Cardinality(Eligible(fs)) = 1) =>
            /\ counter'.files_updated = 1
            /\ counter'.files_skipped = 0
            /\ counter'.files_deleted = 0]_vars

\* The mirrored files under the destination root: the files with the
\* mirrored extension, as map_strm_path tests it.
Mirrored(f) ==
  {d \in DOMAIN f.files :
     IsRelativeTo(d, dst_dir) /\ Lower(PathSuffix(Name(d))) = ".strm"}

Orphans(f) ==
  {d \in Mirrored(f) : ~Exists(f, SourceOf(d, dst_dir, src_dir))}

\* C12: a full sync that returns without raising removes every mirrored
\* file under the destination root whose recovered source path does not
\* exist and counts it in files_deleted, keeps every mirrored file whose
\* recovered source path exists, and removes the directories the removals
\* left empty, counting them in dirs_deleted.
C12_OrphanRemoval ==
  [][(last_op' \in FullSyncs /\ ~sync_raised') =>
       /\ \A d \in Mirrored(fs) :
            (d \in DOMAIN fs'.files) <=> (d \notin Orphans(fs))
       /\ counter'.files_deleted = Cardinality(Orphans(fs))
       /\ \A d \in Orphans(fs) :
            Children(fs, Parent(d)) = {d} =>
              /\ Parent(d) \notin fs'.dirs
              /\ counter'.dirs_deleted >= 1]_vars

\* The directories a walk upward from d removes in f: d and its ancestors
\* strictly below the destination root, as long as each is empty once the
\* one below it is gone.
RECURSIVE EmptyChain(_, _)
EmptyChain(f, d) ==
  IF ~(Len(d) > Len(dst_dir) /\ IsRelativeTo(d, dst_dir)) THEN {}
  ELSE IF Children(f, d) # {} THEN {}
  ELSE {d} \cup EmptyChain(Rmdir(f, d), Parent(d))

\* C13: delete_one on a source path whose destination exists removes the
\* destination file and counts files_deleted = 1, then removes the parent
\* directory and each ancestor below the destination root that is now
\* empty, up to the first non-empty one, and counts dirs_deleted once per
\* removed directory; nothing else changes.
C13_DeletionCascade ==
  [][(last_op' = "delete_one" /\ mapped' # None
        /\ mapped' \in DOMAIN fs.files) =>
       LET gone == EmptyChain(Unlink(fs, mapped'), Parent(mapped'))
       IN /\ fs'.files = Unlink(fs, mapped').files
          /\ fs'.dirs = fs.dirs \ gone
          /\ counter'.files_deleted = 1
          /\ counter'.dirs_deleted = Cardinality(gone)
          /\ dst_dir \in fs'.dirs]_vars

\* delete_one has removed the only file below dst/a: the file, its
\* directory and dst/a are gone, two directories are counted.
C13_Witness ==
  /\ last_op = "delete_one"
  /\ mapped = <<"dst", "a", "AB-1", "AB-1.strm">>
  /\ counter.files_deleted = 1
  /\ counter.dirs_deleted = 2
  /\ Under(fs, dst_dir) = {}

\* The operations of the sync executor.
ExecutorOps == FullSyncs \cup {"update_one", "delete_one"}

\* The part of filesystem f outside directory d.
Outside(f, d) ==
  [dirs |-> {p \in f.dirs : ~IsRelativeTo(p, d)},
   files |-> [p \in {x \in DOMAIN f.files : ~IsRelativeTo(x, d)} |->
                f.files[p]]]

\* C14: no operation of the sync executor removes the destination root,
\* and none creates, modifies or removes a file or directory outside the
\* destination root.
C14_StaysInsideDest ==
  [][last_op' \in ExecutorOps =>
       /\ dst_dir \in fs.dirs => dst_dir \in fs'.dirs
       /\ Outside(fs', dst_dir) = Outside(fs, dst_dir)]_vars

\* A full sync has emptied the destination root of a non-empty source
\* tree, removing directories, and the root is still there.
C14_Witness ==
  /\ last_op \in FullSyncs
  /\ ~sync_raised
  /\ counter.dirs_deleted > 0
  /\ Under(fs, dst_dir) = {}
  /\ dst_dir \in fs.dirs
  /\ DOMAIN Outside(fs, dst_dir).files # {}

\* C15: update_one on an eligible source that exists copies content and
\* modification time to the destination and counts files_updated exactly
\* when the destination is absent or strictly older than the source;
\* otherwise it leaves the filesystem as it is and counts files_skipped;
\* for a source that is ineligible or missing it changes neither a
\* counter nor the filesystem.
C15_UpdateDecision ==
  [][last_op' = "update_one" =>
       LET src == last_path'
           dst == mapped'
       IN IF dst # None /\ src \in DOMAIN fs.files
          THEN IF dst \notin DOMAIN fs.files
                  \/ fs.files[dst].mtime < fs.files[src].mtime
               THEN /\ fs'.files = Copy2(fs, src, dst).files
                    /\ fs'.files[dst] = fs.files[src]
                    /\ counter' = [NoCounts EXCEPT !.files_updated = 1]
               ELSE /\ fs' = fs
                    /\ counter' = [NoCounts EXCEPT !.files_skipped = 1]
          ELSE /\ fs' = fs
               /\ counter' = NoCounts]_vars

\* update_one has skipped a destination exactly as old as its source,
\* whose content differs.
C15_Witness ==
  /\ last_op = "update_one"
  /\ mapped # None
  /\ counter.files_skipped = 1
  /\ counter.files_updated = 0
  /\ fs.files[mapped].mtime = fs.files[last_path].mtime
  /\ fs.files[mapped].data # fs.files[last_path].data

\* C16: when the source file is removed between the eligibility check or
\* the enumeration and the copy, the call returns without raising, and
\* update_one counts neither files_updated nor files_skipped.
C16_VanishTolerated ==
  (vanished /\ exec_pc = "idle") =>
     /\ ~sync_raised
     /\ last_op = "update_one" =>
          counter.files_updated = 0 /\ counter.files_skipped = 0

\* The destination the mapping rule gives for a source path: the
\* destination root, the parent directory relative to the source root, the
\* identifier, the file name.
RuleDestination(src) ==
  dst_dir \o Parent(RelativeTo(src, src_dir))
          \o <<get_avid(Name(src)), Name(src)>>

RuleEligible(src) ==
  /\ IsRelativeTo(src, src_dir)
  /\ Lower(PathSuffix(Name(src))) = ".strm"
  /\ get_avid(Name(src)) # ""

\* C17: for a source path under the source root with the mirrored
\* extension and a non-empty identifier map_strm_path returns destination
\* root / relative parent / identifier / file name; it returns None when
\* the extension does not match or the identifier is empty; so the result
\* is determined by the path arguments and the extractor's answer.
C17_MapPath ==
  last_op = "map_strm_path" =>
     /\ RuleEligible(last_path) => mapped = RuleDestination(last_path)
     /\ (Lower(PathSuffix(Name(last_path))) # ".strm"
           \/ get_avid(Name(last_path)) = "") => mapped = None

\* C18: for an eligible source path under the source root the source path
\* delete() computes from the mapped destination is that path, and no
\* other eligible source path has the same destination.
C18_RoundTrip ==
  (last_op = "recover" /\ RuleEligible(last_path)) =>
     /\ recovered = last_path
     /\ \A s \in MapSources \ {last_path} :
          RuleEligible(s) => map_strm_path(s, src_dir, dst_dir) # mapped

\* Path p is pending under the classification of its last accepted event.
AsLastClassified(p) ==
  /\ last_kind[p] = "changed" => p \in changed_paths /\ p \notin deleted_paths
  /\ last_kind[p] = "deleted" => p \in deleted_paths /\ p \notin changed_paths
  /\ last_kind[p] = "none" => p \notin Pending

\* Every accepted event adds exactly 1 to event_counter, sets
\* last_event_time to the current time, and is followed by the setting of
\* the trigger.
AcceptedEventEffects ==
  /\ [][event_counter' # event_counter =>
          /\ event_counter' = event_counter + 1
          /\ last_event_time' = now
          /\ handler_pc' = "set_trigger"]_vars
  /\ [][(handler_pc = "set_trigger" /\ handler_pc' # "set_trigger") =>
          trigger_event']_vars

\* C19 as stated: since the last snapshot, a path is in the changed set
\* exactly when its last accepted event was a create, a modify or the
\* destination of a move, in the deleted set exactly when it was a delete
\* or the source of a move, and in neither without an accepted event.
C19_Original ==
  /\ [](\A p \in StrmPaths : AsLastClassified(p))
  /\ AcceptedEventEffects

\* C19: the same for every path that the loop has neither requeued nor
\* cleared from the pending sets since its last accepted event.
C19_LastClassificationWins ==
  /\ [](\A p \in StrmPaths \ touched : AsLastClassified(p))
  /\ AcceptedEventEffects

\* Three events were accepted, the last two being a move from the second
\* path to the first: the second is in the deleted set only, the first in
\* the changed set only, and the trigger is set.
C19_Witness ==
  /\ event_counter = 3
  /\ touched = {}
  /\ last_kind[1] = "changed"
  /\ last_kind[2] = "deleted"
  /\ changed_paths = {1}
  /\ deleted_paths = {2}
  /\ trigger_event
  /\ handler_pc = "idle"

\* C20: a callback for a directory, without a path, or for a path with
\* another suffix changes none of the pending sets, last_event_time,
\* event_counter and the trigger, and leaves the dispatcher with nothing
\* more to do.
C20_FilteredChangesNothing ==
  [][(~filtered /\ filtered') =>
       UNCHANGED <<changed_paths, deleted_paths, last_event_time,
                   event_counter, trigger_event, handler_pc>>]_vars

\* A callback was filtered while paths are pending and the trigger is set.
C20_Witness ==
  /\ filtered
  /\ changed_paths # {}
  /\ deleted_paths # {}
  /\ trigger_event
  /\ last_event_time > 0

\* What one accepted _record_event does to the aggregator state.
Recorded(path, deleted) ==
  /\ event_counter' = event_counter + 1
  /\ last_event_time' = now
  /\ IF deleted
     THEN /\ deleted_paths' = deleted_paths \cup {path}
          /\ changed_paths' = changed_paths \ {path}
     ELSE /\ changed_paths' = changed_paths \cup {path}
          /\ deleted_paths' = deleted_paths \ {path}

\* A step in which a callback starts: it is accepted, or it is the first one
\* filtered since an accepted one.  Every other step of a callback that is
\* filtered changes nothing at all.
CallbackStep ==
  /\ handler_pc = "idle"
  /\ event_counter' # event_counter \/ (~filtered /\ filtered')

\* C21: a move acts on the aggregator state as a delete of the old path
\* followed by a create of the new path, each half filtered on its own.
\* With both paths mirrored the old path is recorded as deleted, then the
\* new path as changed, and event_counter grows by 1 each time with no
\* other accepted event in between; with only one path mirrored the move is
\* the delete of the old path, or the create of the new path, alone; with
\* neither it changes nothing.
C21_MoveIsDeleteThenCreate ==
  /\ [][CallbackStep =>
         \A src_path \in EventPaths, dest_path \in EventPaths,
           is_directory \in BOOLEAN :
           on_moved(src_path, dest_path, is_directory) =>
             LET old == ~Filtered(src_path, is_directory)
                 new == ~Filtered(dest_path, is_directory)
             IN /\ (old /\ new) => /\ Recorded(src_path, TRUE)
                                   /\ move_dest' = dest_path
                /\ (old /\ ~new) => on_deleted(src_path, is_directory)
                /\ (~old /\ new) => /\ on_created(dest_path, is_directory)
                                    /\ Recorded(dest_path, FALSE)
                /\ (~old /\ ~new) => UNCHANGED <<shared_vars, handler_pc>>]_vars
  /\ [][MovedDest => Recorded(move_dest, FALSE)]_vars
  /\ [][(move_dest # NoPath /\ event_counter' # event_counter) =>
          MovedDest]_vars
  /\ [](move_dest # NoPath => handler_pc \in {"set_trigger", "moved_dest"})

\* A move from the first path to the second, both mirrored, has recorded
\* its old path and is about to record its new path.
C21_Witness ==
  /\ handler_pc = "moved_dest"
  /\ move_dest = 2
  /\ event_counter = 1
  /\ deleted_paths = {1}
  /\ changed_paths = {}
  /\ trigger_event

\* How many times run_mapping_incremental made the call.
Attempts(call) == Cardinality({i \in DOMAIN calls : calls[i] = call})

\* C22: when run_mapping_incremental has returned, delete_one was called
\* exactly once for every path of the deleted snapshot and update_one
\* exactly once for every path of the changed snapshot, whichever calls
\* raised, and nothing else was called; the failed sets it returned are
\* exactly the changed paths whose update_one raised and the deleted paths
\* whose delete_one raised; and the loop always goes on from the call to
\* the test of the failed sets, no exception leaving the call.
C22_PerPathIsolation ==
  /\ [](pc = "post_batch" =>
          /\ \A p \in deleted_snapshot : Attempts(Call("delete_one", p)) = 1
          /\ \A p \in changed_snapshot : Attempts(Call("update_one", p)) = 1
          /\ Len(calls) = Cardinality(deleted_snapshot)
                          + Cardinality(changed_snapshot)
          /\ failed_changed =
               {p \in changed_snapshot : Call("update_one", p) \in raised_calls}
          /\ failed_deleted =
               {p \in deleted_snapshot :
                  Call("delete_one", p) \in raised_calls})
  /\ [][(pc = "incremental" /\ pc' # pc) => pc' = "post_batch"]_vars

\* A batch of one delete and two updates has returned; the delete and the
\* first update raised, and the second update was still made.
C22_Witness ==
  /\ pc = "post_batch"
  /\ deleted_snapshot = {1}
  /\ changed_snapshot = {1, 2}
  /\ raised_calls = {Call("delete_one", 1), Call("update_one", 1)}
  /\ failed_deleted = {1}
  /\ failed_changed = {1}
  /\ Len(calls) = 3

\* C23: an invocation of run_update_once() that raises is followed by the
\* same wait as one that returns, the rest of RUN_INTERVAL_SECONDS, and
\* changes neither the flag nor any variable of the mapping thread; the
\* update loop ends only with the flag set, and leaves its wait for the
\* next invocation when the interval has passed with the flag unset.
C23_UpdateFailureContained ==
  /\ [][(update_pc = "run_update_once" /\ update_pc' # update_pc) =>
          /\ update_pc' = "sleep"
          /\ update_wake' =
               now + Max(0, RUN_INTERVAL_SECONDS - update_elapsed)
          /\ UNCHANGED <<loop_vars, main_pc>>]_vars
  /\ [](update_pc = "done" => stop_event)
  /\ [][(update_pc = "sleep" /\ update_pc' # update_pc) =>
          IF stop_event THEN update_pc' = "done"
          ELSE now >= update_wake /\ update_pc' = "head"]_vars
  /\ [][(update_pc = "head" /\ update_pc' # update_pc) =>
          update_pc' = IF stop_event THEN "done" ELSE "run_update_once"]_vars

\* run_update_once() raised, the interval has passed since, and the update
\* loop is invoking it again with the flag still unset.
C23_Witness ==
  /\ update_failed
  /\ update_pc = "run_update_once"
  /\ ~stop_event
  /\ main_pc = "await_update"

\* C24: while the mapping thread is inside the full sync, inside
\* run_mapping_incremental (update_one, delete_one) or inside a wait, it
\* does not hold the lock, and a callback that is waiting for the lock then
\* finds it free.
C24_NoLockAcrossIO ==
  (lock_pc \in IOStates \cup WaitStates) =>
     /\ lock # "loop"
     /\ cb_pc = "waiting" => lock = "free"

\* The scheduled full sync is running while a callback has reached the
\* lock.
C24_Witness ==
  /\ lock_pc = "scheduled_full"
  /\ cb_pc = "waiting"
  /\ lock = "free"

\* C25: the flag is unset at the start; a step that sets it is the signal
\* handler's or the start of main()'s finally block; once set it stays set;
\* and with the flag already set, a further signal changes nothing and the
\* finally block leaves the flag set.
C25_FlagMonotonic ==
  /\ ~stop_event
  /\ [][stop_event => stop_event']_vars
  /\ [][(~stop_event /\ stop_event') =>
          \/ signal_age < 0 /\ signal_age' = 0
          \/ main_pc = "finally"]_vars
  /\ [][(stop_event /\ signal_age >= 0 /\ MainSignal) => UNCHANGED vars]_vars
  /\ [][(stop_event /\ MainFinally) => stop_event']_vars

\* The flag was set by a signal and then again by the finally block of
\* main(), which is now waiting for the mapping thread.
C25_Witness ==
  /\ stop_event
  /\ signal_age >= 0
  /\ main_pc = "join"

\* C26: a delete_one for a path that is not eligible, or whose destination
\* does not exist, leaves the filesystem and every counter as they are; and
\* after any delete_one, another delete_one for the same path leaves the
\* filesystem and the counters as the first one left them.
C26_DeleteOneIdempotent ==
  [][last_op' = "delete_one" =>
       /\ (mapped' = None \/ ~Exists(fs, mapped')) =>
             fs' = fs /\ counter' = NoCounts
       /\ LET once == [fs |-> fs', counter |-> counter']
          IN delete_one(once, last_path', src_dir, dst_dir) = once]_vars

\* delete_one has removed a destination file together with its directory.
C26_Witness ==
  /\ last_op = "delete_one"
  /\ mapped # None
  /\ ~Exists(fs, mapped)
  /\ ~Exists(fs, Parent(mapped))
  /\ counter.files_deleted = 1
  /\ counter.dirs_deleted > 0

\* C27: a full sync that starts with the destination root absent and the
\* source root an existing directory does not raise, and the destination
\* root is a directory when it ends.
C27_DestRootCreated ==
  [][(last_op' \in FullSyncs /\ ~Exists(fs, dst_dir) /\ IsDir(fs, src_dir)) =>
       /\ ~sync_raised'
       /\ IsDir(fs', dst_dir)]_vars

\* The step after a scheduled full sync (monitor.py:182-198), and whether
\* it is one without a clear: the sync failed or event_counter advanced.
ScheduledStep == pc = "scheduled_post" /\ pc' = "loop_head"
Inconclusive ==
  ~should_clear_full_sync(success, counter_before, event_counter)

\* C28 as stated: the step after a scheduled full sync that failed, or
\* during which event_counter advanced, leaves the pending sets and the
\* trigger as they are.
C28_Original ==
  [][(ScheduledStep /\ Inconclusive) =>
       UNCHANGED <<changed_paths, deleted_paths, trigger_event>>]_vars

\* C28: that step leaves the pending sets as they are and sets the
\* trigger, whatever the trigger was before.
C28_PendingKeptTriggerSet ==
  [][(ScheduledStep /\ Inconclusive) =>
       /\ UNCHANGED <<changed_paths, deleted_paths>>
       /\ trigger_event']_vars

\* A scheduled full sync has just failed with no event accepted so far: the
\* pending sets are empty, the trigger is set and the next full sync is the
\* retry interval away.
C28_Witness ==
  /\ pc = "loop_head"
  /\ event_counter = 0
  /\ trigger_event
  /\ changed_paths = {}
  /\ deleted_paths = {}
  /\ next_full_sync = now + FULL_SYNC_RETRY_SECONDS

LoopStepTaken == pc' # pc
CallbackAccepted ==
  handler_pc \in {"idle", "moved_dest"} /\ handler_pc' = "set_trigger"
RequeueStep30 ==
  pc = "post_batch" /\ (failed_changed # {} \/ failed_deleted # {})

\* C30 as stated: event_counter and last_event_time are written by accepted
\* callbacks only, and no step of run_mapping_loop changes either.
C30_Original ==
  /\ [][(event_counter' # event_counter \/ last_event_time' > last_event_time)
          => CallbackAccepted]_vars
  /\ [][LoopStepTaken => UNCHANGED <<event_counter, last_event_time>>]_vars

\* C30: event_counter is written by accepted callbacks only and no step of
\* run_mapping_loop changes it; last_event_time is written by accepted
\* callbacks and by the requeue of failed paths, which sets it to the
\* current time, and no other step of run_mapping_loop changes it.
C30_ClockWriters ==
  /\ [][event_counter' # event_counter => CallbackAccepted]_vars
  /\ [][last_event_time' > last_event_time =>
          CallbackAccepted \/ RequeueStep30]_vars
  /\ [][LoopStepTaken =>
          /\ event_counter' = event_counter
          /\ IF RequeueStep30 THEN last_event_time' = now
                              ELSE last_event_time' = last_event_time]_vars

\* The one accepted event was at least DEBOUNCE_SECONDS old when its path
\* was taken into a batch; the operation failed and the requeue has just
\* set last_event_time to the current time.
C30_Witness ==
  /\ pc = "loop_head"
  /\ event_counter = 1
  /\ handler_pc = "idle"
  /\ requeued # {}
  /\ requeue_time = now
  /\ last_event_time = now


\* No callback has been accepted since the last snapshot-and-clear
\* (monitor.py:210-215): Snapshot resets last_kind, Accept sets an entry.
QuietSinceSnapshot == last_kind = Unclassified

\* The invariant of idle wait stated by C31.
IdleWithClearTrigger ==
  (pc = "idle_wait" /\ ~trigger_event /\ handler_pc # "set_trigger")
    => (changed_paths = {} /\ deleted_paths = {})

\* C31 as stated: trigger_event.clear() is executed only in a pass during
\* which no callback has been accepted since the snapshot.
C31_Original ==
  [][(pc = "clear_trigger" /\ pc' = "final_check") => QuietSinceSnapshot]_vars

\* C31: a pass whose batch requeued nothing returns to idle wait only if no
\* callback was accepted since its snapshot.  If one was accepted before the
\* re-check, the loop re-enters the drain without touching the trigger; if
\* one was accepted between the re-check and the final check, the trigger
\* has been cleared and the final check sets it again and re-enters the
\* drain.  Whenever the loop is in idle wait with the trigger clear and no
\* callback is between its lock section and its trigger_event.set(), both
\* pending sets are empty.
C31_IdleMeansDrained ==
  /\ []IdleWithClearTrigger
  /\ [][(pc = "final_check" /\ pc' = "loop_head") => QuietSinceSnapshot]_vars
  /\ [][(pc = "recheck" /\ pc' # pc /\ ~QuietSinceSnapshot)
          => (pc' = "debounce" /\ UNCHANGED trigger_event)]_vars
  /\ [][(pc = "final_check" /\ pc' # pc /\ ~QuietSinceSnapshot)
          => (pc' = "debounce" /\ trigger_event')]_vars

\* A burst was handled by one batch without failures, the trigger has been
\* cleared and the loop is back in idle wait.
C31_Witness ==
  /\ pc = "idle_wait"
  /\ burst.open
  /\ burst.batches = 1
  /\ ~trigger_event
  /\ handler_pc = "idle"
  /\ QuietSinceSnapshot
  /\ changed_paths = {}
  /\ deleted_paths = {}


\* C32: when a pass takes its snapshot-and-clear, at least DEBOUNCE_SECONDS
\* have passed since the most recent accepted callback, whatever callbacks
\* run between the read of last_event_time and the snapshot; so no path
\* enters a batch less than DEBOUNCE_SECONDS after its event was recorded.
C32_QuietBeforeSnapshot ==
  [][(pc = "snapshot" /\ pc' # pc /\ (changed_paths # {} \/ deleted_paths # {}))
       => now - last_event_time >= DEBOUNCE_SECONDS]_vars


\* C33: a full sync that returns without raising removes no file other
\* than mirrored files whose recovered source path does not exist, so its
\* pruning step removes no directory that still holds a file.
C33_PruneOnlyEmpty ==
  [][(last_op' \in FullSyncs /\ ~sync_raised') =>
       /\ \A p \in DOMAIN fs.files \ DOMAIN fs'.files : p \in Orphans(fs)
       /\ \A d \in fs.dirs \ fs'.dirs :
            \A p \in DOMAIN fs.files :
              IsRelativeTo(p, d) => p \in Orphans(fs)]_vars


\* A root is missing or is not a directory (mapping.py:183-188).
RootMissing(f) == ~IsDir(f, dst_dir) \/ ~IsDir(f, src_dir)
InitialAttempt == pc = "initial_full" /\ pc' # pc

\* C34 as stated: once the initial full sync has raised for a root that is
\* missing or not a directory, no further full sync is attempted.
C34_Original == [][InitialAttempt => ~sync_raised]_vars

\* C34: the initial full sync raises exactly when a root is missing or not
\* a directory, and then changes nothing; run_mapping_loop then waits
\* DEBOUNCE_SECONDS and attempts the full sync again, and leaves the
\* startup loop otherwise only when shutdown is requested.
C34_StartupRetried ==
  /\ [][InitialAttempt =>
          /\ sync_raised' <=> RootMissing(fs)
          /\ sync_raised' =>
               /\ fs' = fs
               /\ pc' = "startup_wait"
               /\ wake' = now + DEBOUNCE_SECONDS
               /\ ~baseline']_vars
  /\ [][(pc = "startup_wait" /\ pc' # pc) =>
          IF stop_event THEN pc' = "finally"
                        ELSE pc' = "start" /\ now >= wake]_vars
  /\ [][(pc = "start" /\ pc' # pc /\ ~stop_event) => pc' = "initial_full"]_vars

\* The destination root is missing; the second attempt of the initial full
\* sync has raised like the first and the loop is waiting to try again.
C34_Witness ==
  /\ pc = "startup_wait"
  /\ last_op = "full_sync_again"
  /\ sync_raised
  /\ ~IsDir(fs, dst_dir)
  /\ ~stop_event
  /\ ~baseline


\* C35: while shutdown is not requested, once the initial full sync has
\* succeeded and the deadline next_full_sync has been reached, a scheduled
\* full sync eventually runs, also when callbacks keep being accepted.
C35_ScheduledSyncRuns ==
  (baseline /\ now >= next_full_sync) ~> (pc = "scheduled_full")


\* The map_strm_path images of the eligible source files of f.
Images(f) == {map_strm_path(p, src_dir, dst_dir) : p \in Eligible(f)}

\* C36: after a full sync that returns without raising, no mirrored file
\* remains under the destination root that is not the map_strm_path image
\* of an existing eligible source file, whatever directory it sits in.
\* (That every image is there is C11.)
C36_ExactMirror ==
  [][(last_op' \in FullSyncs /\ ~sync_raised') =>
       Mirrored(fs') \subseteq Images(fs')]_vars


\* C37: on a destination a successful full sync produced, once the changes
\* of the source tree have been recorded and processed by incremental
\* batches in which no call raised, the destination tree, files and
\* directories, is the one a full sync over the same source produces.
C37_IncrementalAgreesWithFull ==
  (last_op = "incremental" /\ changed_paths = {} /\ deleted_paths = {})
    => LET r == main(Here) IN ~r.raised /\ r.fs = fs


\* Positions of run_mapping_loop from which a sync run is entered without
\* a further test of the flag, or at which one is in progress.
RunPositions == {"initial_full", "scheduled_full", "snapshot", "incremental"}
\* A sync run returns.
RunReturns ==
  pc \in {"initial_full", "scheduled_full", "incremental"} /\ pc' # pc

\* C38: once stop_event is set, run_mapping_loop outside a sync run enters
\* no further one, and after the return of the one it had entered or was
\* about to enter it enters no other; the update loop likewise calls
\* run_update_once() at most once more.  A batch in progress when the flag
\* is set still makes the call of every path of its snapshot, and a
\* run_update_once() in progress returns to the computation of sleep_for.
C38_AtMostOneMoreRun ==
  /\ [][(stop_event /\ pc \notin RunPositions) => pc' \notin RunPositions]_vars
  /\ [][(stop_event /\ RunReturns) => pc' \notin RunPositions]_vars
  /\ [][(stop_event /\ pc = "snapshot" /\ pc' # pc)
          => pc' \in {"incremental", "recheck"}]_vars
  /\ [][(stop_event /\ pc = "incremental" /\ pc' # pc) =>
          /\ \A p \in deleted_snapshot :
               \E i \in DOMAIN calls' : calls'[i] = Call("delete_one", p)
          /\ \A p \in changed_snapshot :
               \E i \in DOMAIN calls' : calls'[i] = Call("update_one", p)]_vars
  /\ [][(stop_event /\ update_pc # "run_update_once")
          => update_pc' # "run_update_once"]_vars
  /\ [][(stop_event /\ update_pc = "run_update_once" /\ update_pc' # update_pc)
          => update_pc' = "sleep"]_vars

\* The flag is set; the batch that was in progress has made its call and
\* returned, and the run_update_once() that was in progress has returned.
C38_Witness ==
  /\ stop_event
  /\ pc = "post_batch"
  /\ Len(calls) = 1
  /\ update_pc = "sleep"
  /\ update_wake > now


\* C39: in the standalone monitor every accepted callback is eventually
\* followed by a mapping run that starts after the callback was recorded.
C39_NoLostWakeup == (changed_paths # {}) ~> (changed_paths = {})
====
